---- MODULE Spec2Model ----
(***************************************************************************)
(* A model of Emperfect, the classroom autograding harness.                *)
(*                                                                         *)
(* The harness reads a recipe one directive at a time (Emperfect::Load),   *)
(* and runs every :TestCase through the five phases of Emperfect::RunTest: *)
(* generate, compile, execute, compare, record.  The per-test blocks and   *)
(* the final summary are written to the registered output sinks.           *)
(*                                                                         *)
(* The recipe is an input: each step of the Load loop reads the next       *)
(* directive, drawn from a small set.  What the generated executable does  *)
(* when it is run (its exit code, the check results it logs, its output)   *)
(* is part of the :TestCase directive that is read; what the platform does *)
(* (the exit status of each compile command, the encoding of the raw       *)
(* status returned by std::system) is chosen when the phase runs.          *)
(***************************************************************************)
EXTENDS Integers, Sequences, FiniteSets, TLC

VARIABLES
  argv,      \* main's arguments after the name of the program
  pc,        \* where the program is: "main", "load", a phase of RunTest,
             \* "done", "halted", "exited"
  nread,     \* number of directive lines read from the recipe so far
  command,   \* the directive of the line read last (Load's command), "" if none
  line,      \* the arguments of that line as Load hands them to the handler
  var_map,   \* Emperfect::var_map, the variable store
  is_init,   \* Emperfect::is_init
  compile,   \* Emperfect::compile, the compile recipe (a sequence of commands)
  header,    \* Emperfect::header (number of header lines)
  outputs,   \* Emperfect::outputs, the sinks
  cap,       \* capacity of the vector holding the sinks
  tests,     \* Emperfect::tests
  running,   \* index in tests of the test whose pipeline is in flight, 0 if none
  error      \* "none", or the harness-internal error that ended the run

vars == <<argv, pc, nread, command, line, var_map, is_init, compile, header, outputs, cap, tests, running, error>>

-----------------------------------------------------------------------------
(* Bounds of the model. *)

MaxLines == 4         \* directive lines in a recipe
MaxCompileCmds == 2   \* commands in a compile recipe
MaxFieldChecks == 2   \* check records of a test when result fields are enumerated
MaxFileLines == 2     \* lines of a compared file
MaxLineLen == 2       \* characters of a line of a compared file
MaxEvents == 2        \* executions of checks in one run of a test program
MaxExprLen == 4       \* characters of the expression of a CHECK

-----------------------------------------------------------------------------
(* Sequences. *)

Last(s) == s[Len(s)]

Range(s) == { s[i] : i \in 1..Len(s) }

IsPrefix(s, t) == Len(s) <= Len(t) /\ \A i \in 1..Len(s) : s[i] = t[i]

SeqsUpTo(S, n) == UNION { [1..k -> S] : k \in 0..n }

RECURSIVE SumSeq(_)
SumSeq(s) == IF s = <<>> THEN 0 ELSE s[1] + SumSeq(Tail(s))

RECURSIVE Concat(_)
Concat(ss) == IF ss = <<>> THEN <<>> ELSE ss[1] \o Concat(Tail(ss))

-----------------------------------------------------------------------------
(* OutputInfo: detail levels and the predicates derived from them. *)

ERROR == 0
NONE == 1
PERCENT == 2
SCORE == 3
SUMMARY == 4
STUDENT == 5
TEACHER == 6
FULL == 7
DEBUG == 8

DetailNames ==
  { "none", "percent", "score", "summary", "student", "teacher", "full", "debug" }

NameToDetail(level) ==
  CASE level = "none" -> NONE
    [] level = "percent" -> PERCENT
    [] level = "score" -> SCORE
    [] level = "summary" -> SUMMARY
    [] level = "student" -> STUDENT
    [] level = "teacher" -> TEACHER
    [] level = "full" -> FULL
    [] level = "debug" -> DEBUG
    [] OTHER -> ERROR

HasPercent(o) == o.detail >= PERCENT
HasScore(o) == o.detail >= SCORE
HasSummary(o) == o.detail >= SUMMARY
HasResults(o) == o.detail >= STUDENT
HasFailedDetails(o) == o.detail >= STUDENT
HasHiddenDetails(o) == o.detail >= TEACHER
HasPassedDetails(o) == o.detail >= FULL
HasDebug(o) == o.detail >= DEBUG

IsHTML(o) == o.type = "html"

-----------------------------------------------------------------------------
(* CheckInfo and Testcase. *)

\* CheckInfo::Passed: every recorded execution of the check passed.
CheckPassed(c) == \A i \in 1..Len(c.passed) : c.passed[i]

\* Testcase::CountPassed and Testcase::CountFailed.
CountPassed(t) == Cardinality({ i \in 1..Len(t.checks) : CheckPassed(t.checks[i]) })

CountFailed(t) == Cardinality({ i \in 1..Len(t.checks) : ~CheckPassed(t.checks[i]) })

\* A GetStatus that looks at the output before the checks.
GetStatus_OutputBeforeChecks(t) ==
  IF t.compile_exit_code # 0 THEN "FAILED_COMPILE"
  ELSE IF t.hit_timeout THEN "FAILED_TIME"
  ELSE IF t.run_exit_code # t.expect_exit_code /\ t.expect_exit_code # 0
    THEN "MISSED_ERROR"
  ELSE IF t.run_exit_code # t.expect_exit_code /\ t.run_exit_code # 0
    THEN "FAILED_RUN"
  ELSE IF ~t.output_match THEN "FAILED_OUTPUT"
  ELSE IF CountPassed(t) # Len(t.checks) THEN "FAILED_CHECK"
  ELSE "PASSED"

\* Testcase::GetStatus.
GetStatus(t) ==
  IF t.compile_exit_code # 0 THEN "FAILED_COMPILE"
  ELSE IF t.hit_timeout THEN "FAILED_TIME"
  ELSE IF t.run_exit_code # t.expect_exit_code /\ t.expect_exit_code # 0
    THEN "MISSED_ERROR"
  ELSE IF t.run_exit_code # t.expect_exit_code /\ t.run_exit_code # 0
    THEN "FAILED_RUN"
  ELSE IF CountPassed(t) # Len(t.checks) THEN "FAILED_CHECK"
  ELSE IF ~t.output_match THEN "FAILED_OUTPUT"
  ELSE "PASSED"

Passed(t) == GetStatus(t) = "PASSED"

Failed(t) == ~Passed(t)

\* An EarnedPoints that ignores the status.
EarnedPoints_Always(t) == t.points

\* Testcase::EarnedPoints.
EarnedPoints(t) == IF Passed(t) THEN t.points ELSE 0

\* Testcase::PrintResult_Title: the id and the [HIDDEN] mark (the name of a
\* test is "Test #<id>" throughout the model).
PrintResult_Title(t) == [id |-> t.id, hidden |-> t.hidden]

\* Testcase::PrintResult_Success: the status message; the wrong-exit-code
\* message also carries the expected and the received exit code.
PrintResult_Success(t) ==
  LET status == GetStatus(t) IN
  IF status = "MISSED_ERROR"
    THEN <<status, t.expect_exit_code, t.run_exit_code>>
    ELSE <<status>>

\* CheckInfo::PrintResults: one entry per recorded execution of the check;
\* passed executions are skipped unless the sink has passed-details.
CheckPrintResults(c, k, o) ==
  LET shown == { i \in 1..Len(c.passed) : ~c.passed[i] \/ HasPassedDetails(o) }
      F[i \in 0..Len(c.passed)] ==
        IF i = 0 THEN <<>>
        ELSE IF i \in shown THEN Append(F[i-1], <<k, i, c.passed[i]>>)
        ELSE F[i-1]
  IN F[Len(c.passed)]

\* Testcase::PrintResult_Checks.
PrintResult_Checks(t, o) ==
  IF ~t.hidden \/ HasHiddenDetails(o)
    THEN Concat([k \in 1..Len(t.checks) |-> CheckPrintResults(t.checks[k], k, o)])
    ELSE <<>>

\* A section of a per-test block, present only if its print function wrote
\* anything.
Section(name, data, present) ==
  IF present THEN << [sec |-> name, data |-> data] >> ELSE <<>>

\* Testcase::PrintCode writes nothing for an empty code block.
PrintCode(t) == Section("code", t.code, t.code # "none")

PrintCompileResults(t) == Section("compile", t.cmd_status, TRUE)

PrintErrorResults(t) == Section("stderr", t.run_exit_code, TRUE)

\* A PrintArgs that prints its line even without arguments.
PrintArgs_Always(t) == Section("args", "args", TRUE)

\* Testcase::PrintArgs writes nothing when there are no arguments.
PrintArgs(t) == Section("args", "args", t.args_set)

PrintInputFile(t) == Section("input", "input", TRUE)

\* Testcase::PrintOutputDiff: the two outputs side by side, and the diff on
\* HTML sinks only.
PrintOutputDiff(t, o) ==
  Section("output", <<t.out_content, t.expect_lines>>, TRUE)
    \o Section("diff", <<t.out_content, t.expect_lines>>, IsHTML(o))

\* A PrintResult that withholds nothing.
NeverWithheld(t, o) == FALSE

\* Details are withheld when the test is hidden and the sink has no
\* hidden-details.
DetailsWithheld(t, o) == t.hidden /\ ~HasHiddenDetails(o)

\* Testcase::PrintResult: what is written to sink o for test t.
PrintResult(t, o) ==
  IF ~HasResults(o) THEN <<>>
  ELSE
    LET status == GetStatus(t)
        print_checks == status = "FAILED_CHECK" \/ HasPassedDetails(o)
        print_code == Failed(t) \/ HasPassedDetails(o)
        print_compile == status = "FAILED_COMPILE"
        print_error == status = "FAILED_RUN"
        print_input == status = "MISSED_ERROR" \/ status = "FAILED_OUTPUT"
                         \/ HasPassedDetails(o)
        print_diff == status = "FAILED_RUN" \/ status = "FAILED_OUTPUT"
        checks == PrintResult_Checks(t, o)
        sections ==
          IF DetailsWithheld(t, o) THEN <<>>
          ELSE (IF print_checks THEN Section("checks", checks, checks # <<>>) ELSE <<>>)
            \o (IF print_code THEN PrintCode(t) ELSE <<>>)
            \o (IF print_compile THEN PrintCompileResults(t) ELSE <<>>)
            \o (IF print_error THEN PrintErrorResults(t) ELSE <<>>)
            \o (IF print_input THEN PrintArgs(t) \o PrintInputFile(t) ELSE <<>>)
            \o (IF print_diff THEN PrintOutputDiff(t, o) ELSE <<>>)
    IN << [kind |-> "result",
           title |-> PrintResult_Title(t),
           status |-> PrintResult_Success(t),
           sections |-> sections] >>

-----------------------------------------------------------------------------
(* emp::File as used by CompareTestResults: a file is a sequence of lines, *)
(* a line a sequence of characters.                                        *)

Chars == { "a", "A", " " }

to_lower(c) == IF c = "A" THEN "a" ELSE c

is_whitespace(c) == c = " "

NonEmptyLine(l) == Len(l) > 0

NotWhitespace(c) == ~is_whitespace(c)

\* emp::File::Apply(emp::to_lower)
FileToLower(f) == [i \in 1..Len(f) |-> [j \in 1..Len(f[i]) |-> to_lower(f[i][j])]]

\* emp::File::RemoveEmpty
RemoveEmpty(f) == SelectSeq(f, NonEmptyLine)

\* emp::File::RemoveWhitespace: whitespace is deleted inside every line, then
\* the lines left empty are removed; the line structure is kept.
RemoveWhitespace(f) ==
  RemoveEmpty([i \in 1..Len(f) |-> SelectSeq(f[i], NotWhitespace)])

\* A normalisation that never folds the case.
NormaliseForCompare_KeepCase(f, match_case, match_space) ==
  IF match_space = FALSE THEN RemoveWhitespace(f) ELSE RemoveEmpty(f)

\* The normalisation CompareTestResults applies to both files.
NormaliseForCompare(f, match_case, match_space) ==
  LET cased == IF match_case = FALSE THEN FileToLower(f) ELSE f
  IN IF match_space = FALSE THEN RemoveWhitespace(cased) ELSE RemoveEmpty(cased)

-----------------------------------------------------------------------------
(* Test records. *)

\* A Testcase as constructed by Testcase(size_t _id), with the fields the
\* model adds to it: what the directive declared (exit_code_arg, prog), and
\* what the phases saw (cmd_status, raw, out_content, result_file, log).
\* files: the generated files of the test that exist.  body: the lines of
\* the code block as they are in the recipe, with their references;
\* commands: the compile commands as they were handed to std::system.
NewTest(id) ==
  [ id |-> id, points |-> 0, hidden |-> FALSE, args_set |-> FALSE,
    code |-> "none", expect_filename |-> "", expect_lines |-> <<>>,
    expect_exit_code |-> 0, match_case |-> TRUE, match_space |-> TRUE,
    checks |-> <<>>,
    compile_exit_code |-> -1, run_exit_code |-> -1,
    output_match |-> TRUE, hit_timeout |-> FALSE,
    exit_code_arg |-> "none", prog |-> [fate |-> "ok", nchecks |-> 0, kinds |-> <<>>, exprs |-> <<>>,
                                        events |-> <<>>, out |-> <<>>],
    cmd_status |-> <<>>, raw |-> -1, out_content |-> <<>>,
    result_file |-> <<>>, log |-> <<>>, files |-> {},
    name |-> <<>>, compile_filename |-> <<>>, cpp_filename |-> <<>>,
    exe_filename |-> <<>>, error_filename |-> <<>>, output_filename |-> <<>>,
    result_filename |-> <<>>, body |-> <<>>, processed_code |-> <<>>,
    commands |-> <<>> ]

\* The lines a generated test writes to its results file (CheckInfo::ToCPP,
\* Testcase::GenerateTestCPP): per executed check the six field lines, then
\* one SCORE line.  The number after :CHECK: is the id of the record made for
\* the occurrence, which ToCPP wrote into the code of the occurrence.  The :MSG: value is streamed as it is: a message holding a
\* line break continues on a line of its own, which starts with no field
\* token.  A program that calls exit() or is killed never flushes the file.
EmittedId(t, e) == (CHOOSE c \in Range(t.checks) : c.location = e.occ).id

CheckLines(t, e) ==
  << <<":CHECK:", EmittedId(t, e)>>, <<":TEST:", 0>>, <<":RESULT:", IF e.ok THEN 1 ELSE 0>>,
     <<":LHS:", 0>>, <<":RHS:", 0>>, <<":MSG:", 0>> >>
    \o (IF e.ml THEN << <<"text", 0>> >> ELSE <<>>)

\* A program that reports every check of the body once, executed or not.
ResultLines_OncePerRecord(t) ==
  Concat([i \in 1..Len(t.checks) |-> CheckLines(t, [occ |-> t.checks[i].location, ok |-> TRUE, ml |-> FALSE])])
    \o << <<"SCORE", 0>> >>

ResultLines(t) ==
  IF t.prog.fate = "ok"
    THEN Concat([i \in 1..Len(t.prog.events) |-> CheckLines(t, t.prog.events[i])])
           \o << <<"SCORE", 0>> >>
    ELSE <<>>

ResultFields == { ":CHECK:", ":TEST:", ":RESULT:", ":LHS:", ":RHS:", ":MSG:", "SCORE" }

\* The raw status std::system returns for the run command: the exit code of
\* "timeout ... ./exe" (124 when the timeout fired) in the low byte or in the
\* high byte, as the platform has it.
ExitCodeOf(prog) ==
  CASE prog.fate = "ok" -> 0
    [] prog.fate = "exit1" -> 1
    [] prog.fate = "hang" -> 124

RawOutcomes(prog) == { ExitCodeOf(prog), ExitCodeOf(prog) * 256 }

\* The int operators of C++ (truncation toward zero).
CDiv(a, b) == IF a >= 0 THEN a \div b ELSE -((-a) \div b)

CRem(a, b) == a - b * CDiv(a, b)

-----------------------------------------------------------------------------
(* OutputInfo: the sinks. *)

\* A default-constructed OutputInfo.  file: a filename is set (otherwise the
\* sink is std::cout); open: file_ptr is set; valid: the stream file_ptr
\* points to still exists; written: what reached the sink.
NewOutput ==
  [ detail |-> STUDENT, type |-> "", file |-> FALSE, open |-> FALSE,
    valid |-> TRUE, written |-> <<>> ]

\* OutputInfo::SetType.
SetType(o, in) ==
  [o EXCEPT !.type = IF in = "html" \/ in = "htm" THEN "html" ELSE "txt"]

\* OutputInfo::SetFilename; ext is the extension of the file name.
SetFilename(o, ext) ==
  LET named == [o EXCEPT !.file = TRUE]
  IN IF o.type = "" THEN SetType(named, ext) ELSE named

\* OutputInfo::SetDetail.
SetDetail(o, level) == [o EXCEPT !.detail = NameToDetail(level)]

\* An InitFile that puts the header on every file.
InitFile_HeaderAlways(o) ==
  [o EXCEPT !.open = TRUE,
            !.type = IF ~o.file /\ o.type = "" THEN "txt" ELSE o.type,
            !.written = Append(@, [kind |-> "header", detail |-> o.detail])]

\* OutputInfo::InitFile: opens the stream and, from summary level on, writes
\* the header.
InitFile(o) ==
  [o EXCEPT !.open = TRUE,
            !.type = IF ~o.file /\ o.type = "" THEN "txt" ELSE o.type,
            !.written = IF HasSummary(o)
                          THEN Append(@, [kind |-> "header", detail |-> o.detail])
                          ELSE @]

\* OutputInfo::GetFile.
GetFile(o) == IF o.open THEN o ELSE InitFile(o)

\* Streaming items to a sink ("output.GetFile() << ...").
Emit(o, items) ==
  IF items = <<>> THEN o ELSE [GetFile(o) EXCEPT !.written = @ \o items]

\* ~OutputInfo deletes the stream of a sink that has a filename.  When the
\* vector of sinks reallocates, every sink is copied and the original is
\* destroyed: the copy of a sink whose file is open keeps a pointer to a
\* deleted stream.
Dangling(o) == o.file /\ o.open /\ ~o.valid

AfterReallocation(outs) ==
  [i \in 1..Len(outs) |->
     [outs[i] EXCEPT !.valid = @ /\ ~(outs[i].file /\ outs[i].open)]]

\* Writing through a dangling stream pointer is undefined: the text may
\* arrive, be lost, or the process may die.
UBOutcomes == { "written", "lost", "crash" }

DanglingWritten(outs, items) ==
  { i \in 1..Len(outs) : Dangling(outs[i]) /\ items[i] # <<>> }

\* "for (auto & output : outputs) ...": items[i] is streamed to sink i, in
\* order, until the process dies.
WriteOutputs(outs, items, ub) ==
  LET F[i \in 0..Len(outs)] ==
        IF i = 0 THEN [outs |-> outs, crashed |-> FALSE]
        ELSE LET prev == F[i-1] IN
          IF prev.crashed \/ items[i] = <<>> THEN prev
          ELSE IF Dangling(outs[i]) /\ ub[i] = "crash"
            THEN [prev EXCEPT !.crashed = TRUE]
          ELSE IF Dangling(outs[i]) /\ ub[i] = "lost" THEN prev
          ELSE [prev EXCEPT !.outs[i] = Emit(outs[i], items[i])]
  IN F[Len(outs)]

-----------------------------------------------------------------------------
(* Emperfect: scores and the summary. *)

CountTotalPoints(ts) == SumSeq([i \in 1..Len(ts) |-> ts[i].points])

CountEarnedPoints(ts) == SumSeq([i \in 1..Len(ts) |-> EarnedPoints(ts[i])])

\* std::round of the quotient of two non-negative numbers: halves go up.
StdRound(num, den) ==
  LET q == num \div den
      r == num % den
  IN IF 2 * r >= den THEN q + 1 ELSE q

\* Emperfect::GetPercentEarned.  With no points in total the quotient is 0/0,
\* not a number: <<>>; otherwise the one-element sequence of the percentage.
GetPercentEarned(ts) ==
  IF CountTotalPoints(ts) = 0 THEN <<>>
  ELSE << StdRound(100 * CountEarnedPoints(ts), CountTotalPoints(ts)) >>

\* Emperfect::PrintSummary_Text and Emperfect::PrintSummary_HTML.
PrintSummary_Text(ts) ==
  [ kind |-> "summary",
    rows |-> [i \in 1..Len(ts) |->
                <<ts[i].id, CountPassed(ts[i]), Len(ts[i].checks), EarnedPoints(ts[i])>>],
    percent |-> GetPercentEarned(ts) ]

PrintSummary_HTML(ts) ==
  [ kind |-> "summary",
    rows |-> [i \in 1..Len(ts) |->
                <<ts[i].id, GetStatus(ts[i]), Len(ts[i].checks), CountPassed(ts[i]),
                  CountFailed(ts[i]), EarnedPoints(ts[i]), ts[i].points>>]
               \o << <<CountEarnedPoints(ts), CountTotalPoints(ts)>> >>,
    percent |-> GetPercentEarned(ts) ]

\* Emperfect::PrintSummary: what is streamed to sink o.
PrintSummary(ts, o) ==
  IF HasSummary(o)
    THEN IF IsHTML(o) THEN << PrintSummary_HTML(ts) >> ELSE << PrintSummary_Text(ts) >>
  ELSE IF HasScore(o)
    THEN << [kind |-> "score", earned |-> CountEarnedPoints(ts),
             total |-> CountTotalPoints(ts)] >>
  ELSE IF HasPercent(o)
    THEN << [kind |-> "percent", percent |-> GetPercentEarned(ts)] >>
  ELSE <<>>

-----------------------------------------------------------------------------
(* Emperfect::var_map: the variable store and the "${name}" references.    *)
(* A name is a string; a text is a sequence of characters or of longer     *)
(* pieces of text.                                                         *)

Quote == "\""

Backslash == "\\"

\* emp::to_literal of a text: quotes around it, a backslash before every
\* quote and backslash in it.
EscapeChar(c) == IF c \in { Quote, Backslash } THEN << Backslash, c >> ELSE << c >>

to_literal(v) == << Quote >> \o Concat([i \in 1..Len(v) |-> EscapeChar(v[i])]) \o << Quote >>

RECURSIVE Unescape(_)
Unescape(s) ==
  IF s = <<>> THEN <<>>
  ELSE IF s[1] = Backslash /\ Len(s) >= 2
    THEN << s[2] >> \o Unescape(SubSeq(s, 3, Len(s)))
  ELSE << s[1] >> \o Unescape(Tail(s))

\* emp::from_literal_string: the text a literal stands for.
from_literal_string(l) == Unescape(SubSeq(l, 2, Len(l) - 1))

\* The test "value.size() && value[0] == '\"'" of AddOutput and ConfigTestcase.
IsQuoted(value) == Len(value) > 0 /\ value[1] = Quote

\* emp::to_lower of a name, for the names that hold capital letters.
LowerCaseOf == [ DIR |-> "dir", Dir |-> "dir", POINTS |-> "points" ]

to_lower_string(name) == IF name \in DOMAIN LowerCaseOf THEN LowerCaseOf[name] ELSE name

\* A line of the recipe is a sequence of pieces: a piece of text (var is ""),
\* or a reference "${var}".
Text(t) == << [var |-> "", text |-> t] >>

Ref(name) == << [var |-> name, text |-> <<>>] >>

\* Emperfect::Emperfect: the variables every run starts with.
InitialVars == [ dir |-> << ".emperfect" >>, debug |-> << "false" >>, log |-> << "Log.txt" >> ]

\* emp::slice_assign gives the assignments "var=value" of an argument list as
\* a map: here a sequence of [var, value] in the order of the names, each
\* name and each value as it is written.  Emperfect::LoadVars stores them.
LoadVars(vm, setting_map) ==
  LET assigned == { setting_map[i].var : i \in 1..Len(setting_map) }
      ValueOf(k) == (CHOOSE i \in 1..Len(setting_map) : setting_map[i].var = k)
  IN [ k \in DOMAIN vm \cup assigned |->
         IF k \in assigned THEN setting_map[ValueOf(k)].value ELSE vm[k] ]

\* Emperfect::ApplyVars: every reference is replaced by the value stored
\* under the lower-case form of its name; a name that is not in the store
\* ends the run ("Unknown variable used").
ApplyVars(vm, str) ==
  LET F[i \in 0..Len(str)] ==
        IF i = 0 THEN [ok |-> TRUE, out |-> <<>>]
        ELSE LET prev == F[i-1]
                 var_name == to_lower_string(str[i].var)
             IN IF ~prev.ok THEN prev
                ELSE IF str[i].var = "" THEN [prev EXCEPT !.out = @ \o str[i].text]
                ELSE IF var_name \notin DOMAIN vm THEN [prev EXCEPT !.ok = FALSE]
                ELSE [prev EXCEPT !.out = @ \o vm[var_name]]
  IN F[Len(str)]

\* Load applies ApplyVars to a directive line before anything else is done
\* with it: to the value of each of its arguments.
ApplyVarsToArgs(vm, args) ==
  [ ok |-> \A i \in 1..Len(args) : ApplyVars(vm, args[i].value).ok,
    setting_map |-> [ i \in 1..Len(args) |->
                        [var |-> args[i].var, value |-> ApplyVars(vm, args[i].value).out] ] ]

\* An argument "var=value" of a directive line, and one whose value is a
\* reference.
Arg(var, value) == [var |-> var, value |-> Text(value)]

ArgRef(var, name) == [var |-> var, value |-> Ref(name)]

-----------------------------------------------------------------------------
(* The recipes the harness is run on. *)

\* What the program under test does when the generated executable runs:
\* fate is how it ends, nchecks the checks in the test body, kinds what each
\* of them is ("CHECK" or "CHECK_TYPE") in the order of the body, exprs the
\* first argument of each, character by character, events the checks it
\* executes (occ: which occurrence of the body; ml: the failure message
\* spans two lines), out its standard output.
Prog(fate, nchecks, events, out) ==
  [fate |-> fate, nchecks |-> nchecks, kinds |-> [k \in 1..nchecks |-> "CHECK"],
   exprs |-> [k \in 1..nchecks |-> << "a" >>], events |-> events, out |-> out]

Executes(occ, ok, ml) == [occ |-> occ, ok |-> ok, ml |-> ml]

CheckEvent(ok, ml) == Executes(1, ok, ml)

FileA == << <<"a">> >>

FileUpperA == << <<"A">> >>

\* The arguments and body of a :TestCase directive.  more: the arguments
\* beyond points, hidden, args, exit_code, expect and match_case; body: the
\* code block, with its references.
TestcaseLine(points, hidden, prog) ==
  [ points |-> points, hidden |-> hidden, args_set |-> FALSE, code |-> "text",
    exit_code_arg |-> "none", expect_filename |-> "", expect_lines |-> <<>>,
    match_case |-> TRUE, prog |-> prog, more |-> {}, body |-> Text(<< "code" >>) ]

PlainTest == TestcaseLine(1, FALSE, Prog("ok", 0, <<>>, FileA))

TestcaseLines ==
  { TestcaseLine(1, FALSE, Prog("ok", 1, <<CheckEvent(TRUE, FALSE)>>, FileA)),
    TestcaseLine(7, FALSE, Prog("ok", 1, <<CheckEvent(FALSE, FALSE)>>, FileA)),
    TestcaseLine(7, TRUE, Prog("ok", 1, <<CheckEvent(FALSE, FALSE)>>, FileA)),
    TestcaseLine(1, FALSE, Prog("ok", 1, <<CheckEvent(FALSE, TRUE)>>, FileA)),
    TestcaseLine(1, FALSE, Prog("exit1", 0, <<>>, FileA)),
    [TestcaseLine(7, FALSE, Prog("exit1", 0, <<>>, FileA))
       EXCEPT !.exit_code_arg = "1"],
    TestcaseLine(1, TRUE, Prog("hang", 0, <<>>, <<>>)),
    [TestcaseLine(1, FALSE, Prog("ok", 0, <<>>, FileA))
       EXCEPT !.expect_filename = "expect.txt", !.expect_lines = FileUpperA,
              !.match_case = FALSE, !.args_set = TRUE],
    [TestcaseLine(1, FALSE, Prog("ok", 0, <<>>, FileA))
       EXCEPT !.expect_filename = "expect.txt", !.expect_lines = FileUpperA],
    [TestcaseLine(1, FALSE, Prog("ok", 1, <<>>, FileA)) EXCEPT !.code = "badcheck"],
    [TestcaseLine(7, FALSE, Prog("ok", 0, <<>>, FileA))
       EXCEPT !.code = "none", !.body = <<>>],
    [PlainTest EXCEPT !.more = { Arg("cpp", << "my.cpp" >>) }],
    [PlainTest EXCEPT !.more = { Arg("exe", << "my.exe" >>) }],
    [PlainTest EXCEPT !.more = { Arg("compile", << "my-compile.txt" >>) }],
    [PlainTest EXCEPT !.more = { Arg("error", << "my-errors.txt" >>) }],
    [PlainTest EXCEPT !.more = { Arg("output", to_literal(<< "my-output.txt" >>)),
                                 Arg("result", << "my-result.txt" >>) }],
    [PlainTest EXCEPT !.more = { ArgRef("name", "cpp") }],
    [PlainTest EXCEPT !.body = Ref("args")] }

\* The names of the arguments in the order std::map keeps them.
ArgOrder ==
  << "DIR", "args", "compile", "cpp", "detail", "dir", "error", "exe", "exit_code",
     "expect", "filename", "hidden", "match_case", "name", "output", "points",
     "result", "test_var", "type", "unknown" >>

\* The arguments of a line in that order.
Sorted(args) ==
  LET F[i \in 0..Len(ArgOrder)] ==
        IF i = 0 THEN <<>>
        ELSE IF \E g \in args : g.var = ArgOrder[i]
          THEN Append(F[i-1], CHOOSE g \in args : g.var = ArgOrder[i])
        ELSE F[i-1]
  IN F[Len(ArgOrder)]

\* The argument list of a :TestCase directive.
TestcaseArgs(a) ==
  Sorted({ Arg("points", << ToString(a.points) >>) }
         \cup (IF a.hidden THEN { Arg("hidden", << "true" >>) } ELSE {})
         \cup (IF a.args_set THEN { Arg("args", << "5" >>) } ELSE {})
         \cup (IF a.exit_code_arg # "none"
                 THEN { Arg("exit_code", << a.exit_code_arg >>) } ELSE {})
         \cup (IF a.expect_filename # ""
                 THEN { Arg("expect", << a.expect_filename >>) } ELSE {})
         \cup (IF ~a.match_case THEN { Arg("match_case", << "false" >>) } ELSE {})
         \cup a.more)

\* The argument lists of an :Init directive: none, the directory under a
\* capitalised name, the directory as a quoted literal.
WorkDir == << "my dir", ",", " ", Quote, "1", Quote >>

InitLines ==
  { <<>>, << Arg("DIR", << "work" >>) >>, << Arg("dir", to_literal(WorkDir)) >> }

\* The argument list of a :Header directive (Types.emperfect).
HeaderArgs == << Arg("test_var", << "2.0" >>) >>

\* The arguments of an :Output directive ("" for an argument that is absent;
\* unknown: the directive carries an argument the harness does not know).
OutputLine(detail, ext, unknown) == [detail |-> detail, ext |-> ext, unknown |-> unknown]

\* The argument list of an :Output directive.
OutputArgs(a) ==
  Sorted((IF a.detail # "" THEN { Arg("detail", << a.detail >>) } ELSE {})
         \cup (IF a.ext # "" THEN { Arg("filename", << "out.", a.ext >>) } ELSE {})
         \cup (IF a.unknown THEN { Arg("unknown", << "1" >>) } ELSE {}))

OutputLines ==
  { OutputLine("", "", FALSE), OutputLine("percent", "", FALSE),
    OutputLine("score", "txt", FALSE), OutputLine("summary", "html", FALSE),
    OutputLine("teacher", "html", FALSE), OutputLine("full", "", FALSE),
    OutputLine("verbose", "", FALSE), OutputLine("", "", TRUE) }

\* The commands of a compile recipe, by their position.
CompileCommands == [k \in 1..MaxCompileCmds |-> k]

\* The text of a compile command (Types.emperfect).
CommandLine(k) ==
  Text(<< "g++ " >>) \o Ref("cpp") \o Text(<< " -o " >>) \o Ref("exe")
    \o Text(<< " 2> " >>) \o Ref("compile")

\* Status of a compile command as std::system returns it.
CompileStatuses == { 0, 256 }

-----------------------------------------------------------------------------
(* main, and the status the process ends with. *)

\* The files that can be opened for reading.
Readable == { "recipe" }

\* The argument lists of the runs: none, a recipe, a recipe that cannot be
\* read, two arguments.
ArgLists == { <<>>, << "recipe" >>, << "missing" >>, << "recipe", "extra" >> }

-----------------------------------------------------------------------------
(* Emperfect::Load: one directive per step. *)

Init ==
  /\ argv \in ArgLists
  /\ pc = "main"
  /\ nread = 0
  /\ command = ""
  /\ line = <<>>
  /\ var_map = InitialVars
  /\ is_init = FALSE
  /\ compile = <<>>
  /\ header = <<>>
  /\ outputs = <<>>
  /\ cap = 0
  /\ tests = <<>>
  /\ running = 0
  /\ error = "none"

\* Load(filename): the lines that input_file.Load gets from the stream of
\* the file.  A stream that could not be opened gives none.
FileLines(filename) == IF filename \in Readable THEN MaxLines ELSE 0

Reading == pc = "load" /\ nread < FileLines(argv[1])

\* emp::notify::Error / TestError: the run ends here.
Halt(why) == pc' = "halted" /\ error' = why

\* main up to the call of Load: without exactly one argument it prints the
\* format of the command and exits.
Main ==
  /\ pc = "main"
  /\ IF Len(argv) # 1
       THEN pc' = "exited" /\ error' = "usage"
       ELSE pc' = "load" /\ UNCHANGED error
  /\ UNCHANGED <<argv, nread, command, line, var_map, is_init, compile, header,
                 outputs, cap, tests, running>>

\* emp::notify::Error and TestError: the status the process exits with when
\* nothing handles the error.
NotifyExitStatus == 1

\* The status of a process that a signal ended (128 + SIGSEGV).
CrashStatus == 139

\* The status of the process when the program has ended: exit(1) in main,
\* 0 when main returns, the status of an error, or that of a crash.
ExitStatus ==
  CASE pc = "exited" -> 1
    [] pc = "done" -> 0
    [] pc = "halted" /\ error = "crash" -> CrashStatus
    [] pc = "halted" /\ error # "crash" -> NotifyExitStatus

\* An Init that may be run again.
ReadInit_Repeatable ==
  /\ Reading
  /\ nread' = nread + 1
  /\ command' = ":init"
  /\ \E args \in InitLines :
       /\ line' = ApplyVarsToArgs(var_map, args).setting_map
       /\ var_map' = LoadVars(var_map, line')
  /\ is_init' = TRUE
  /\ UNCHANGED <<pc, error, compile, header, outputs, cap, tests, running>>
  /\ UNCHANGED argv

\* ":init" -> Emperfect::Init.
ReadInit ==
  /\ Reading
  /\ nread' = nread + 1
  /\ command' = ":init"
  /\ \E args \in InitLines :
       /\ line' = ApplyVarsToArgs(var_map, args).setting_map
       /\ IF is_init
            THEN Halt("init_twice") /\ UNCHANGED <<is_init, var_map>>
            ELSE /\ is_init' = TRUE
                 /\ var_map' = LoadVars(var_map, line')
                 /\ UNCHANGED <<pc, error>>
  /\ UNCHANGED <<compile, header, outputs, cap, tests, running>>
  /\ UNCHANGED argv

\* ":compile" -> LoadCode(compile, line).
ReadCompile ==
  /\ Reading
  /\ nread' = nread + 1
  /\ command' = ":compile"
  /\ line' = <<>>
  /\ is_init' = TRUE
  /\ \E n \in 0..MaxCompileCmds : compile' = SubSeq(CompileCommands, 1, n)
  /\ UNCHANGED <<pc, error, var_map, header, outputs, cap, tests, running>>
  /\ UNCHANGED argv

\* ":header" -> LoadCode(header, line).
ReadHeader ==
  /\ Reading
  /\ nread' = nread + 1
  /\ command' = ":header"
  /\ line' = ApplyVarsToArgs(var_map, HeaderArgs).setting_map
  /\ var_map' = LoadVars(var_map, line')
  /\ is_init' = TRUE
  /\ header' = << "header" >>
  /\ UNCHANGED <<pc, error, compile, outputs, cap, tests, running>>
  /\ UNCHANGED argv

\* ":output" -> Emperfect::AddOutput.  The arguments are applied in the
\* order of their names; an unknown one or an unknown level ends the run.
ReadOutput ==
  /\ Reading
  /\ nread' = nread + 1
  /\ command' = ":output"
  /\ is_init' = TRUE
  /\ cap' = IF Len(outputs) < cap THEN cap ELSE IF cap = 0 THEN 1 ELSE 2 * cap
  /\ \E a \in OutputLines :
       /\ line' = ApplyVarsToArgs(var_map, OutputArgs(a)).setting_map
       /\ var_map' = LoadVars(var_map, line')
       /\ LET old == IF Len(outputs) < cap THEN outputs ELSE AfterReallocation(outputs)
              o1 == IF a.detail = "" THEN NewOutput ELSE SetDetail(NewOutput, a.detail)
              o2 == IF a.ext = "" THEN o1 ELSE SetFilename(o1, a.ext)
          IN IF a.detail # "" /\ NameToDetail(a.detail) = ERROR
               THEN outputs' = Append(old, NewOutput) /\ Halt("unknown_detail")
             ELSE IF a.unknown
               THEN outputs' = Append(old, o2) /\ Halt("unknown_argument")
             ELSE outputs' = Append(old, o2) /\ UNCHANGED <<pc, error>>
  /\ UNCHANGED <<compile, header, tests, running>>
  /\ UNCHANGED argv

\* File names that do not tell the tests apart.
FileBase_NoId(vm, id) == vm["dir"] \o << "/Test" >>

\* ConfigTestcase: what the names of the files of test id start with.
FileBase(vm, id) == vm["dir"] \o << "/Test" \o ToString(id) >>

\* Emperfect::ParseBool.
ParseBool(input) == input \in { << "true" >>, << "1" >> }

\* Emperfect::ConfigTestcase.  The names of the files of the test are put in
\* the store, then the arguments of the line are stored on top of them and
\* the names are locked into the test; then the arguments are applied in
\* the order of their names, a quoted value without its quotes, and one the
\* harness does not know ends the run.  a: the directive, for what its
\* arguments stand for (the points as a number, the lines of the expect
\* file, what the generated program does).
ConfigTestcase(t, vm, setting_map, a) ==
  LET file_base == FileBase(vm, t.id)
      names == [ compile |-> file_base \o << "-compile.txt" >>,
                 cpp |-> file_base \o << ".cpp" >>,
                 error |-> file_base \o << "-errors.txt" >>,
                 exe |-> file_base \o << ".exe" >>,
                 out |-> file_base \o << "-output.txt" >>,
                 result |-> file_base \o << "-result.txt" >> ]
      vm1 == [ k \in DOMAIN vm \cup DOMAIN names |->
                 IF k \in DOMAIN names THEN names[k] ELSE vm[k] ]
      vm2 == LoadVars(vm1, setting_map)
      t1 == [t EXCEPT !.compile_filename = vm2["compile"],
                      !.cpp_filename = vm2["cpp"],
                      !.exe_filename = vm2["exe"],
                      !.error_filename = vm2["error"],
                      !.output_filename = vm2["out"],
                      !.result_filename = vm2["result"],
                      !.exit_code_arg = a.exit_code_arg,
                      !.prog = a.prog]
      F[i \in 0..Len(setting_map)] ==
        IF i = 0 THEN [test |-> t1, ok |-> TRUE]
        ELSE LET prev == F[i-1]
                 arg == setting_map[i].var
                 raw == setting_map[i].value
                 value == IF IsQuoted(raw) THEN from_literal_string(raw) ELSE raw
             IN IF ~prev.ok THEN prev
                ELSE IF arg = "args" THEN [prev EXCEPT !.test.args_set = TRUE]
                ELSE IF arg = "expect"
                  THEN [prev EXCEPT !.test.expect_filename = a.expect_filename,
                                    !.test.expect_lines = a.expect_lines]
                ELSE IF arg = "hidden" THEN [prev EXCEPT !.test.hidden = ParseBool(value)]
                ELSE IF arg = "match_case"
                  THEN [prev EXCEPT !.test.match_case = ParseBool(value)]
                ELSE IF arg = "name" THEN [prev EXCEPT !.test.name = value]
                ELSE IF arg = "output" THEN [prev EXCEPT !.test.output_filename = value]
                ELSE IF arg = "points" THEN [prev EXCEPT !.test.points = a.points]
                ELSE IF arg = "result" THEN [prev EXCEPT !.test.result_filename = value]
                ELSE [prev EXCEPT !.ok = FALSE]
  IN [test |-> F[Len(setting_map)].test, ok |-> F[Len(setting_map)].ok, vars |-> vm2]

\* A harness that takes a test without compile rules.
NoCompileRules_Ignored == FALSE

\* AddTestcase: "Cannot set up testcase without compile rules."
NoCompileRules == compile = <<>>

\* ":testcase" -> Emperfect::AddTestcase, up to the call of RunTest.
ReadTestcase ==
  /\ Reading
  /\ nread' = nread + 1
  /\ command' = ":testcase"
  /\ \E a \in TestcaseLines :
       LET read == ApplyVarsToArgs(var_map, TestcaseArgs(a)) IN
       IF ~read.ok
         THEN /\ Halt("unknown_variable")
              /\ line' = <<>>
              /\ UNCHANGED <<var_map, tests, running, is_init>>
       ELSE IF NoCompileRules
         THEN /\ Halt("no_compile")
              /\ line' = read.setting_map
              /\ UNCHANGED <<var_map, tests, running, is_init>>
       ELSE LET c == ConfigTestcase(NewTest(Len(tests)), var_map, read.setting_map, a) IN
         /\ line' = read.setting_map
         /\ var_map' = c.vars
         /\ IF ~c.ok
              THEN /\ tests' = Append(tests, c.test)
                   /\ Halt("unknown_argument")
                   /\ UNCHANGED <<running, is_init>>
              ELSE /\ tests' = Append(tests, [c.test EXCEPT !.code = a.code,
                                                            !.body = a.body])
                   /\ running' = Len(tests) + 1
                   /\ is_init' = TRUE
                   /\ pc' = "generate"
                   /\ UNCHANGED error
  /\ UNCHANGED <<compile, header, outputs, cap>>
  /\ UNCHANGED argv

\* Any other line: not a directive, or a directive the harness does not know.
ReadUnknown ==
  /\ Reading
  /\ nread' = nread + 1
  /\ command' = ":other"
  /\ line' = <<>>
  /\ Halt("unknown_command")
  /\ UNCHANGED <<var_map, is_init, compile, header, outputs, cap, tests, running>>
  /\ UNCHANGED argv

\* A non-blank line that does not start with ':' where Load expects a
\* directive.  LoadCode reads the lines after :Compile, :Header and :TestCase
\* up to the next ':' line, so such a line is the first of the recipe or
\* follows an :Init or :Output line, which read only their own line.
ReadStray ==
  /\ Reading
  /\ command \in { "", ":init", ":output" }
  /\ nread' = nread + 1
  /\ command' = "text"
  /\ line' = <<>>
  /\ Halt("unknown_line")
  /\ UNCHANGED <<var_map, is_init, compile, header, outputs, cap, tests, running>>
  /\ UNCHANGED argv

\* End of the recipe: Emperfect::PrintSummary.
EndOfFile ==
  /\ pc = "load"
  /\ LET items == [i \in 1..Len(outputs) |-> PrintSummary(tests, outputs[i])] IN
     \E ub \in [DanglingWritten(outputs, items) -> UBOutcomes] :
       LET w == WriteOutputs(outputs, items, ub) IN
         /\ outputs' = w.outs
         /\ IF w.crashed THEN Halt("crash") ELSE pc' = "done" /\ UNCHANGED error
  /\ UNCHANGED <<nread, command, line, var_map, is_init, compile, header, cap, tests, running>>
  /\ UNCHANGED argv

-----------------------------------------------------------------------------
(* Emperfect::RunTest: the five phases of the test in flight. *)

Test == tests[running]

InPhase(phase) == pc = phase /\ running # 0

Logged(t, phase) == [t EXCEPT !.log = Append(@, phase)]

\* A body without a CHECK that joins comparisons.
HasAndOr_Never(code) == FALSE

\* CheckString::SetFrom: the expression of a CHECK of the body holds "&&" or
\* "||".
HasAndOr(code) == code = "badcheck"

\* RunTest, before its phases: the number of the test and the names of its
\* files are put in the store.  Nothing is taken out of the store.
RunTestVars(vm, t) ==
  LET set == [ compile |-> t.compile_filename, cpp |-> t.cpp_filename,
               error |-> t.error_filename, exe |-> t.exe_filename,
               out |-> t.output_filename, result |-> t.result_filename ]
  IN [ k \in DOMAIN vm \cup DOMAIN set \cup { "#test" } |->
         IF k = "#test" THEN << ToString(t.id) >>
         ELSE IF k \in DOMAIN set THEN set[k] ELSE vm[k] ]

\* emp::String::ReplaceMacro, emp::replace_macro: the places of the
\* occurrences of one macro in the body, in the order of the text.  The
\* replacer hands each to its function with the number of occurrences it has
\* replaced before in this call.
MacroHits(kinds, macro) ==
  LET F[i \in 0..Len(kinds)] ==
        IF i = 0 THEN <<>>
        ELSE IF kinds[i] = macro THEN Append(F[i-1], i) ELSE F[i-1]
  IN F[Len(kinds)]

\* The operators of a comparison, and those that join comparisons.
Comparisons == { << "=", "=" >>, << "!", "=" >>, << "<" >>, << "<", "=" >>, << ">" >>, << ">", "=" >> }

AndOr == { << "&", "&" >>, << "|", "|" >> }

\* emp::find_any_of: the first position from start on where one of the
\* patterns begins; positions count from 1 and 0 stands for npos.
find_any_of(str, start, patterns) ==
  LET hits == { pos \in start..Len(str) :
                  \E pat \in patterns :
                    /\ pos + Len(pat) - 1 <= Len(str)
                    /\ SubSeq(str, pos, pos + Len(pat) - 1) = pat }
  IN IF hits = {} THEN 0 ELSE CHOOSE pos \in hits : \A q \in hits : pos <= q

\* CheckString::SetFrom: the expression of a CHECK is split at its first
\* comparison; "&&", "||" and a second comparison are errors.  The second
\* comparison is looked for from two characters after the first on.
SetFrom(test) ==
  LET comp_pos == find_any_of(test, 1, Comparisons)
      comp_size == IF comp_pos + 1 <= Len(test) /\ test[comp_pos + 1] = "=" THEN 2 ELSE 1
      none == [ok |-> FALSE, why |-> "none", lhs |-> <<>>, comparator |-> <<>>, rhs |-> <<>>]
  IN IF find_any_of(test, 1, AndOr) # 0 THEN [none EXCEPT !.why = "bad_check"]
     ELSE IF comp_pos = 0 THEN [none EXCEPT !.ok = TRUE, !.lhs = test]
     ELSE IF find_any_of(test, comp_pos + 2, Comparisons) # 0
       THEN [none EXCEPT !.why = "two_comparisons"]
     ELSE [none EXCEPT !.ok = TRUE,
                       !.lhs = SubSeq(test, 1, comp_pos - 1),
                       !.comparator = SubSeq(test, comp_pos, comp_pos + comp_size - 1),
                       !.rhs = SubSeq(test, comp_pos + comp_size, Len(test))]

\* CheckString::SetCheckType.
SetCheckType(expression) ==
  [ok |-> TRUE, why |-> "none", lhs |-> expression, comparator |-> << "TYPE" >>,
   rhs |-> << "type" >>]

\* CheckInfo: the record of one check.  location tells the occurrence.
NewCheck(check_body, location, check_id, type) ==
  [id |-> check_id, type |-> type, location |-> location, passed |-> <<>>,
   test |-> IF type = "ASSERT" THEN SetFrom(check_body) ELSE SetCheckType(check_body)]

\* Testcase::ProcessChecks: one pass over the body for CHECK, then one for
\* CHECK_TYPE; each occurrence appends a record to checks.
ProcessChecks(kinds, exprs) ==
  LET asserts == MacroHits(kinds, "CHECK")
      compares == MacroHits(kinds, "CHECK_TYPE")
  IN [k \in 1..Len(asserts) |-> NewCheck(exprs[asserts[k]], asserts[k], k - 1, "ASSERT")]
       \o [k \in 1..Len(compares) |->
             NewCheck(exprs[compares[k]], compares[k], k - 1, "TYPE_COMPARE")]

\* Phase 1, Emperfect::GenerateTestCPP: the references of the code block are
\* replaced (a header line of the recipes here holds none); the .cpp file is opened and its
\* boilerplate written, then Testcase::ProcessChecks makes one check record
\* per CHECK of the body; a CHECK joining comparisons with && or || ends the
\* run.
GenerateTestCPP ==
  /\ InPhase("generate")
  /\ var_map' = RunTestVars(var_map, Test)
  /\ LET code == ApplyVars(RunTestVars(var_map, Test), Test.body)
         t == [Logged(Test, "generate") EXCEPT !.processed_code = code.out,
                                               !.files = @ \cup { "cpp" }]
         made == [t EXCEPT !.checks = ProcessChecks(t.prog.kinds, t.prog.exprs)]
         bad == SelectSeq(made.checks, LAMBDA c : ~c.test.ok)
     IN IF ~code.ok
          THEN /\ tests' = [tests EXCEPT ![running] = Logged(Test, "generate")]
               /\ Halt("unknown_variable")
        ELSE IF HasAndOr(t.code)
          THEN tests' = [tests EXCEPT ![running] = t] /\ Halt("bad_check")
        ELSE IF bad # <<>>
          THEN tests' = [tests EXCEPT ![running] = t] /\ Halt(bad[1].test.why)
          ELSE /\ tests' = [tests EXCEPT ![running] = made]
               /\ pc' = "compile"
               /\ UNCHANGED error
  /\ UNCHANGED <<nread, command, line, is_init, compile, header, outputs, cap, running>>
  /\ UNCHANGED argv

\* Phase 2, Emperfect::CompileTestCPP: every command of the compile recipe is
\* run, and each stores its status in compile_exit_code.
CompileExitCode(t, st) ==
  LET F[i \in 0..Len(st)] == IF i = 0 THEN t.compile_exit_code ELSE st[i]
  IN F[Len(st)]

\* A RunTest that executes whatever the compiler said.
AfterCompile_AlwaysExecute(t) == "execute"

\* RunTest: phases 3 and 4 are run only if compile_exit_code is 0.
AfterCompile(t) == IF t.compile_exit_code = 0 THEN "execute" ELSE "record"

CompileTestCPP ==
  /\ InPhase("compile")
  /\ \E st \in [1..Len(compile) -> CompileStatuses] :
       LET t == [Logged(Test, "compile") EXCEPT
                   !.commands = [k \in 1..Len(compile) |->
                                   ApplyVars(var_map, CommandLine(compile[k])).out],
                   !.cmd_status = st,
                   !.compile_exit_code = CompileExitCode(Test, st),
                   !.files = @ \cup { "compile" }]
       IN /\ tests' = [tests EXCEPT ![running] = t]
          /\ pc' = AfterCompile(t)
  /\ UNCHANGED <<nread, command, line, var_map, is_init, compile, header, outputs, cap, running, error>>
  /\ UNCHANGED argv

\* A timeout test that looks at the first byte only.
HitTimeout_LowByteOnly(status) == CRem(status, 256) = 124

\* Phase 3, Emperfect::RunTestExe.  The code of "timeout" for a run it cut
\* short is 124; it may be in the first or in the second byte of the status.
HitTimeout(status) == CRem(status, 256) = 124 \/ CDiv(status, 256) = 124

RunTestExe ==
  /\ InPhase("execute")
  /\ \E status \in RawOutcomes(Test.prog) :
       tests' = [tests EXCEPT ![running] =
                   [Logged(Test, "execute") EXCEPT
                      !.raw = status,
                      !.run_exit_code = status,
                      !.hit_timeout = @ \/ HitTimeout(status),
                      !.out_content = Test.prog.out,
                      !.result_file = ResultLines(Test),
                      !.files = @ \cup { "out", "error" }
                                  \cup (IF Test.prog.fate = "ok" THEN { "result" } ELSE {})]]
  /\ pc' = "compare"
  /\ UNCHANGED <<nread, command, line, var_map, is_init, compile, header, outputs, cap, running, error>>
  /\ UNCHANGED argv

\* Phase 4, Emperfect::CompareTestResults.
OutputMatch(t) ==
  IF t.expect_filename # ""
    THEN NormaliseForCompare(t.expect_lines, t.match_case, t.match_space)
           = NormaliseForCompare(t.out_content, t.match_case, t.match_space)
    ELSE TRUE

CompareTestResults ==
  /\ InPhase("compare")
  /\ tests' = [tests EXCEPT ![running] =
                 [Logged(Test, "compare") EXCEPT !.output_match = OutputMatch(Test)]]
  /\ pc' = "record"
  /\ UNCHANGED <<nread, command, line, var_map, is_init, compile, header, outputs, cap, running, error>>
  /\ UNCHANGED argv

\* Phase 5, Emperfect::RecordTestResults.  First the results file is read
\* line by line: ":CHECK:" selects a check, ":RESULT:" stores its result, a
\* line with an unknown field ends the run.  checks[check_id] is not tested
\* against the size of checks: range tells that every access was inside.
ReadResultFile(t) ==
  LET lines == t.result_file
      F[i \in 0..Len(lines)] ==
        IF i = 0 THEN [checks |-> t.checks, check_id |-> 0, ok |-> TRUE, range |-> TRUE]
        ELSE LET prev == F[i-1]
                 field == lines[i][1]
                 value == lines[i][2]
             IN IF ~prev.ok \/ ~prev.range THEN prev
                ELSE IF field = ":CHECK:" THEN [prev EXCEPT !.check_id = value]
                ELSE IF field \in { ":RESULT:", ":LHS:", ":RHS:", ":MSG:" }
                         /\ prev.check_id >= Len(prev.checks)
                  THEN [prev EXCEPT !.range = FALSE]
                ELSE IF field = ":RESULT:"
                  THEN [prev EXCEPT !.checks[prev.check_id + 1].passed = << value = 1 >>]
                ELSE IF field \in ResultFields THEN prev
                ELSE [prev EXCEPT !.ok = FALSE]
  IN F[Len(lines)]

\* A write through checks[check_id] beyond the end of the vector is
\* undefined: the run crashes there, or goes on with memory it does not own
\* overwritten (the block printed is then that of the checks as they were).
OutOfRange(outs, items) ==
  \/ Halt("crash") /\ UNCHANGED <<outputs, running>>
  \/ \E ub \in [DanglingWritten(outs, items) -> UBOutcomes] :
       LET w == WriteOutputs(outs, items, ub) IN
         /\ outputs' = w.outs
         /\ IF w.crashed
              THEN Halt("crash") /\ UNCHANGED running
              ELSE pc' = "load" /\ running' = 0 /\ UNCHANGED error

\* Then the block of the test is printed to every sink.
RecordTestResults ==
  /\ InPhase("record")
  /\ LET read == ReadResultFile(Test)
         t == [Logged(Test, "record") EXCEPT !.checks = read.checks]
         items == [i \in 1..Len(outputs) |-> PrintResult(t, outputs[i])]
     IN /\ tests' = [tests EXCEPT ![running] = t]
        /\ IF ~read.range
             THEN OutOfRange(outputs, items)
           ELSE IF ~read.ok
             THEN Halt("unknown_field") /\ UNCHANGED <<outputs, running>>
             ELSE \E ub \in [DanglingWritten(outputs, items) -> UBOutcomes] :
                    LET w == WriteOutputs(outputs, items, ub) IN
                      /\ outputs' = w.outs
                      /\ IF w.crashed
                           THEN Halt("crash") /\ UNCHANGED running
                           ELSE pc' = "load" /\ running' = 0 /\ UNCHANGED error
  /\ UNCHANGED <<nread, command, line, var_map, is_init, compile, header, cap>>
  /\ UNCHANGED argv

Next ==
  \/ Main
  \/ ReadInit
  \/ ReadCompile
  \/ ReadHeader
  \/ ReadOutput
  \/ ReadTestcase
  \/ ReadUnknown
  \/ ReadStray
  \/ EndOfFile
  \/ GenerateTestCPP
  \/ CompileTestCPP
  \/ RunTestExe
  \/ CompareTestResults
  \/ RecordTestResults

Spec == Init /\ [][Next]_vars

\* The harness is a sequential program: it keeps running until it ends.
FairSpec == Spec /\ WF_vars(Next)

-----------------------------------------------------------------------------
(* The record phase on every combination of a test's result fields and     *)
(* every sink.                                                             *)

\* The first test of a recipe, a :TestCase with its points only, as
\* ConfigTestcase leaves it, and the store as RunTest leaves it.
FirstArgs == ApplyVarsToArgs(InitialVars, TestcaseArgs(PlainTest)).setting_map

FirstTest ==
  LET c == ConfigTestcase(NewTest(0), InitialVars, FirstArgs, PlainTest).test
  IN [NewTest(0) EXCEPT !.compile_filename = c.compile_filename,
                        !.cpp_filename = c.cpp_filename,
                        !.exe_filename = c.exe_filename,
                        !.error_filename = c.error_filename,
                        !.output_filename = c.output_filename,
                        !.result_filename = c.result_filename,
                        !.processed_code = PlainTest.body,
                        !.body = PlainTest.body]

FirstVars ==
  RunTestVars(ConfigTestcase(NewTest(0), InitialVars, FirstArgs, PlainTest).vars, FirstTest)

FieldCheckResults == { <<>>, <<TRUE>>, <<FALSE>>, <<TRUE, FALSE>> }

FieldChecks == SeqsUpTo({ [passed |-> p] : p \in FieldCheckResults }, MaxFieldChecks)

FieldExitCodes == { 0, 1, 256 }

InitFields ==
  /\ pc = "record"
  /\ nread = 1
  /\ command = ":testcase"
  /\ line = FirstArgs
  /\ var_map = FirstVars
  /\ is_init = TRUE
  /\ compile = SubSeq(CompileCommands, 1, 1)
  /\ header = <<>>
  /\ cap = 1
  /\ running = 1
  /\ error = "none"
  /\ \E d \in NONE..DEBUG, ty \in { "html", "txt" } :
       outputs = << [NewOutput EXCEPT !.detail = d, !.type = ty, !.file = TRUE] >>
  /\ \E cec \in { -1, 0, 256 }, ht \in BOOLEAN, rec \in FieldExitCodes,
        eec \in { 0, 1 }, cs \in FieldChecks, om \in BOOLEAN, hid \in BOOLEAN,
        cd \in { "none", "text" }, as \in BOOLEAN :
       tests = << [FirstTest EXCEPT
                     !.compile_exit_code = cec, !.hit_timeout = ht,
                     !.run_exit_code = rec, !.expect_exit_code = eec,
                     !.checks = cs, !.output_match = om, !.hidden = hid,
                     !.code = cd, !.args_set = as, !.points = 1,
                     !.log = <<"generate", "compile">>,
                     !.files = { "cpp", "compile" }] >>
  /\ argv = << "recipe" >>

NextFields == RecordTestResults

SpecFields == InitFields /\ [][NextFields]_vars

-----------------------------------------------------------------------------
(* The compare phase on every pair of small files. *)

Lines == SeqsUpTo(Chars, MaxLineLen)

Files == SeqsUpTo(Lines, MaxFileLines)

InitCompare ==
  /\ pc = "compare"
  /\ nread = 1
  /\ command = ":testcase"
  /\ line = FirstArgs
  /\ var_map = FirstVars
  /\ is_init = TRUE
  /\ compile = SubSeq(CompileCommands, 1, 1)
  /\ header = <<>>
  /\ outputs = <<>>
  /\ cap = 0
  /\ running = 1
  /\ error = "none"
  /\ \E out \in Files, mc \in BOOLEAN, ms \in BOOLEAN :
       \/ \E exp \in Files :
            tests = << [FirstTest EXCEPT
                          !.compile_exit_code = 0, !.run_exit_code = 0, !.raw = 0,
                          !.cmd_status = <<0>>, !.out_content = out,
                          !.expect_filename = "expect.txt", !.expect_lines = exp,
                          !.match_case = mc, !.match_space = ms,
                          !.log = <<"generate", "compile", "execute">>,
                          !.files = { "cpp", "compile", "out", "error", "result" }] >>
       \/ tests = << [FirstTest EXCEPT
                        !.compile_exit_code = 0, !.run_exit_code = 0, !.raw = 0,
                        !.cmd_status = <<0>>, !.out_content = out,
                        !.match_case = mc, !.match_space = ms,
                        !.log = <<"generate", "compile", "execute">>,
                          !.files = { "cpp", "compile", "out", "error", "result" }] >>
  /\ argv = << "recipe" >>

NextCompare == CompareTestResults

SpecCompare == InitCompare /\ [][NextCompare]_vars

-----------------------------------------------------------------------------
(* The generate phase on a test with one CHECK, for every small expression. *)

ExprChars == { "a", "<", ">", "=", "!", "&" }

Exprs == SeqsUpTo(ExprChars, MaxExprLen) \ { <<>> }

InitExpr ==
  /\ argv = << "recipe" >>
  /\ pc = "generate"
  /\ nread = 1
  /\ command = ":testcase"
  /\ line = FirstArgs
  /\ var_map = ConfigTestcase(NewTest(0), InitialVars, FirstArgs, PlainTest).vars
  /\ is_init = TRUE
  /\ compile = SubSeq(CompileCommands, 1, 1)
  /\ header = <<>>
  /\ outputs = <<>>
  /\ cap = 0
  /\ running = 1
  /\ error = "none"
  /\ \E e \in Exprs :
       tests = << [FirstTest EXCEPT
                     !.points = 1, !.code = "text",
                     !.prog = [Prog("ok", 1, <<>>, FileA) EXCEPT !.exprs = << e >>]] >>

NextExpr == GenerateTestCPP

SpecExpr == InitExpr /\ [][NextExpr]_vars

-----------------------------------------------------------------------------
(* The phases of one test on every small body: the checks of the body, the  *)
(* checks the program executes, how the program ends, and what the results *)
(* file holds before the run.                                               *)

\* The bodies: up to MaxFieldChecks occurrences of CHECK and CHECK_TYPE.
CheckKinds == SeqsUpTo({ "CHECK", "CHECK_TYPE" }, MaxFieldChecks)

\* What a run executes of a body with n occurrences: up to MaxEvents
\* executions, in any order and number (loops, branches, early return).
\* Only a failed check writes the message given in the body.
Executions(n) ==
  SeqsUpTo({ e \in [occ : 1..n, ok : BOOLEAN, ml : BOOLEAN] : e.ok => ~e.ml }, MaxEvents)

Fates == { "ok", "exit1", "hang" }

\* The results file before the run: none, or the one an earlier run of the
\* recipe left, whose test had two checks.
LeftOver ==
  { <<>>,
    << <<":CHECK:", 0>>, <<":TEST:", 0>>, <<":RESULT:", 1>>, <<":LHS:", 0>>,
       <<":RHS:", 0>>, <<":MSG:", 0>>,
       <<":CHECK:", 1>>, <<":TEST:", 0>>, <<":RESULT:", 1>>, <<":LHS:", 0>>,
       <<":RHS:", 0>>, <<":MSG:", 0>>, <<"SCORE", 0>> >> }

InitChecks ==
  /\ argv = << "recipe" >>
  /\ pc = "generate"
  /\ nread = 1
  /\ command = ":testcase"
  /\ line = FirstArgs
  /\ var_map = ConfigTestcase(NewTest(0), InitialVars, FirstArgs, PlainTest).vars
  /\ is_init = TRUE
  /\ compile = SubSeq(CompileCommands, 1, 1)
  /\ header = <<>>
  /\ outputs = << [NewOutput EXCEPT !.detail = TEACHER, !.type = "txt", !.file = TRUE] >>
  /\ cap = 1
  /\ running = 1
  /\ error = "none"
  /\ \E kinds \in CheckKinds, fate \in Fates, left \in LeftOver :
       \E events \in Executions(Len(kinds)) :
         tests = << [FirstTest EXCEPT
                       !.points = 1, !.code = "text",
                       !.prog = [Prog(fate, Len(kinds), events, FileA)
                                   EXCEPT !.kinds = kinds],
                       !.result_file = left] >>

NextChecks ==
  \/ GenerateTestCPP
  \/ CompileTestCPP
  \/ RunTestExe
  \/ CompareTestResults
  \/ RecordTestResults

SpecChecks == InitChecks /\ [][NextChecks]_vars

-----------------------------------------------------------------------------
(* Properties. *)

Recorded(t) == t.log # <<>> /\ Last(t.log) = "record"

\* The per-test blocks a sink has received.
Blocks(o) == { k \in 1..Len(o.written) : o.written[k].kind = "result" }

\* The status table: condition and status of each row, in order.
StatusTable(t) ==
  << <<t.compile_exit_code # 0, "FAILED_COMPILE">>,
     <<t.hit_timeout, "FAILED_TIME">>,
     <<t.run_exit_code # t.expect_exit_code /\ t.expect_exit_code # 0, "MISSED_ERROR">>,
     <<t.run_exit_code # 0 /\ t.expect_exit_code = 0, "FAILED_RUN">>,
     <<\E k \in 1..Len(t.checks) : ~CheckPassed(t.checks[k]), "FAILED_CHECK">>,
     <<~t.output_match, "FAILED_OUTPUT">>,
     <<TRUE, "PASSED">> >>

FirstMatchingRow(t) ==
  LET rows == StatusTable(t)
      first == CHOOSE i \in 1..Len(rows) :
                 rows[i][1] /\ \A j \in 1..(i-1) : ~rows[j][1]
  IN rows[first][2]

\* C1: for every combination of result fields, the status of a test, and the
\* status printed in its block, is the status of the first row of the status
\* table whose condition holds; the test counts as passed exactly when that
\* row is the last one.
C1_StatusIsFirstMatchingRow ==
  /\ \A i \in 1..Len(tests) :
       /\ GetStatus(tests[i]) = FirstMatchingRow(tests[i])
       /\ Passed(tests[i]) <=> FirstMatchingRow(tests[i]) = "PASSED"
  /\ pc = "load" /\ running = 0 =>
       \A i \in 1..Len(outputs) : \A k \in Blocks(outputs[i]) :
         outputs[i].written[k].status[1] = FirstMatchingRow(tests[1])

\* A block was printed for a test in which three rows of the table match.
C1_Witness ==
  /\ pc = "load"
  /\ Len(tests) = 1
  /\ Recorded(tests[1])
  /\ tests[1].compile_exit_code = 0
  /\ ~tests[1].hit_timeout
  /\ tests[1].run_exit_code = 256
  /\ tests[1].expect_exit_code = 1
  /\ CountFailed(tests[1]) > 0
  /\ ~tests[1].output_match
  /\ \E k \in Blocks(outputs[1]) : outputs[1].written[k].status[1] = "MISSED_ERROR"

\* round(100 * earned / total), halves rounded up, as a one-element sequence;
\* <<>> when the quotient is not a number.
RoundedPercent(earned, total) ==
  IF total = 0 THEN <<>> ELSE << (200 * earned + total) \div (2 * total) >>

SumOfPoints(ts) == SumSeq([i \in 1..Len(ts) |-> ts[i].points])

SumOfEarned(ts) ==
  SumSeq([i \in 1..Len(ts) |-> IF GetStatus(ts[i]) = "PASSED" THEN ts[i].points ELSE 0])

\* C2: every percent a sink reports (in its summary or as its percent line)
\* is round(100 * sum of earned / sum of points) over all tests, a test
\* earning its points if its status is passed and 0 otherwise.
C2_PercentIsRoundedRatio ==
  \A i \in 1..Len(outputs) : \A k \in 1..Len(outputs[i].written) :
    LET item == outputs[i].written[k] IN
      item.kind \in { "summary", "percent" } =>
        item.percent = RoundedPercent(SumOfEarned(tests), SumOfPoints(tests))

\* 1 of 8 points earned: 12.5 percent is reported as 13.
C2_Witness ==
  /\ pc = "done"
  /\ Len(tests) = 2
  /\ SumOfEarned(tests) = 1
  /\ SumOfPoints(tests) = 8
  /\ \E i \in 1..Len(outputs) : \E k \in 1..Len(outputs[i].written) :
       /\ outputs[i].written[k].kind = "percent"
       /\ outputs[i].written[k].percent = <<13>>

AllPhases == << "generate", "compile", "execute", "compare", "record" >>

CompileFailedPhases == << "generate", "compile", "record" >>

\* C3: the phases of every test run in the order generate, compile, execute,
\* compare, record; execute and compare are run exactly when
\* compile_exit_code is 0 after the compile phase; and no test is left
\* behind without its record phase while the harness goes on.
C3_PhaseOrder ==
  \A i \in 1..Len(tests) :
    LET t == tests[i] IN
      /\ IsPrefix(t.log, AllPhases) \/ IsPrefix(t.log, CompileFailedPhases)
      /\ Len(t.log) >= 3 => ("execute" \in Range(t.log) <=> t.compile_exit_code = 0)
      /\ Recorded(t) => ("compare" \in Range(t.log) <=> t.compile_exit_code = 0)
      /\ (i # running \/ pc \in { "load", "done" }) /\ error = "none" => Recorded(t)

\* Both shapes of a finished pipeline have occurred in one run.
C3_Witness ==
  /\ pc = "load"
  /\ Len(tests) = 2
  /\ tests[1].log = CompileFailedPhases
  /\ tests[1].compile_exit_code # 0
  /\ tests[2].log = AllPhases
  /\ tests[2].compile_exit_code = 0

\* A test ends in a per-test failure: a compile failure, a run-time error, a
\* timeout, a failed check or an output mismatch.
EndsInFailure(t) ==
  /\ "compile" \in Range(t.log)
  /\ \/ t.compile_exit_code # 0
     \/ /\ "execute" \in Range(t.log)
        /\ \/ t.run_exit_code # 0
           \/ t.hit_timeout
           \/ \E k \in 1..Len(t.prog.events) : ~t.prog.events[k].ok
     \/ "compare" \in Range(t.log) /\ ~t.output_match

\* C4: the harness never halts in the pipeline of a test that ends in a
\* per-test failure: the failure is recorded and the harness returns to the
\* recipe.
C4_PerTestFailureNeverHalts ==
  \A i \in 1..Len(tests) :
    EndsInFailure(tests[i]) => ~(pc = "halted" /\ running = i)

SectionNames(block) == { block.sections[j].sec : j \in 1..Len(block.sections) }

\* Tests that differ from t in what a block could show beyond title and
\* status line.
Variants(t) ==
  { [t EXCEPT !.code = cd, !.args_set = as, !.checks = cs, !.output_match = om,
              !.out_content = oc] :
      cd \in { "none", "text" }, as \in BOOLEAN,
      cs \in SeqsUpTo({ [passed |-> <<TRUE>>], [passed |-> <<FALSE>>] }, 1),
      om \in BOOLEAN, oc \in { <<>>, FileA } }

\* C5: the block a sink without hidden-details receives for a hidden test is
\* the title and the status line and nothing else, whatever the status; any
\* hidden test with the same id and the same status line gets the same block.
C5_HiddenBlockIsTitleAndStatus ==
  pc = "load" /\ running = 0 =>
    \A i \in 1..Len(outputs) :
      LET o == outputs[i]
          t == tests[1]
      IN t.hidden /\ HasResults(o) /\ ~HasHiddenDetails(o) =>
           /\ Blocks(o) # {}
           /\ \A k \in Blocks(o) :
                /\ o.written[k].title = [id |-> t.id, hidden |-> TRUE]
                /\ o.written[k].status = PrintResult_Success(t)
                /\ o.written[k].sections = <<>>
                /\ \A t2 \in Variants(t) :
                     PrintResult_Success(t2) = PrintResult_Success(t) =>
                       LET b2 == PrintResult(t2, o)[1] IN
                         /\ b2.title = o.written[k].title
                         /\ b2.status = o.written[k].status
                         /\ SectionNames(b2) = {}

\* A hidden test with a failed check and a code block was printed to a
\* student-level sink.
C5_Witness ==
  /\ pc = "load"
  /\ Len(tests) = 1
  /\ tests[1].hidden
  /\ tests[1].code = "text"
  /\ GetStatus(tests[1]) = "FAILED_CHECK"
  /\ outputs[1].detail = STUDENT
  /\ Blocks(outputs[1]) # {}

\* The sections the original statement and the amended statement speak
\* about: those of every block printed with details.
DetailedBlocks(P(_, _, _)) ==
  pc = "load" /\ running = 0 =>
    \A i \in 1..Len(outputs) :
      LET o == outputs[i]
          t == tests[1]
      IN HasResults(o) /\ (~t.hidden \/ HasHiddenDetails(o)) =>
           /\ Blocks(o) # {}
           /\ \A k \in Blocks(o) : P(t, o, SectionNames(o.written[k]))

SectionsAsStated(t, o, S) ==
  LET status == GetStatus(t)
      pd == HasPassedDetails(o)
      input == status = "MISSED_ERROR" \/ status = "FAILED_OUTPUT" \/ pd
      diff == status = "FAILED_RUN" \/ status = "FAILED_OUTPUT"
  IN /\ "checks" \in S <=> (status = "FAILED_CHECK" \/ pd)
     /\ "code" \in S <=> (status # "PASSED" \/ pd)
     /\ "compile" \in S <=> status = "FAILED_COMPILE"
     /\ "stderr" \in S <=> status = "FAILED_RUN"
     /\ "args" \in S <=> input
     /\ "input" \in S <=> input
     /\ "output" \in S <=> diff
     /\ "diff" \in S <=> diff
     /\ status = "PASSED" /\ o.detail \in { STUDENT, TEACHER } => S = {}

SectionsAsPrinted(t, o, S) ==
  LET status == GetStatus(t)
      pd == HasPassedDetails(o)
      input == status = "MISSED_ERROR" \/ status = "FAILED_OUTPUT" \/ pd
      diff == status = "FAILED_RUN" \/ status = "FAILED_OUTPUT"
      executed == \E k \in 1..Len(t.checks) : t.checks[k].passed # <<>>
  IN /\ "checks" \in S <=> (status = "FAILED_CHECK" \/ (pd /\ executed))
     /\ "code" \in S <=> ((status # "PASSED" \/ pd) /\ t.code # "none")
     /\ "compile" \in S <=> status = "FAILED_COMPILE"
     /\ "stderr" \in S <=> status = "FAILED_RUN"
     /\ "args" \in S <=> (input /\ t.args_set)
     /\ "input" \in S <=> input
     /\ "output" \in S <=> diff
     /\ "diff" \in S <=> (diff /\ IsHTML(o))
     /\ status = "PASSED" /\ o.detail \in { STUDENT, TEACHER } => S = {}

\* C6 as stated: for a visible test, or a sink with hidden-details, the
\* sections after the status line are exactly: per-check results iff
\* failed-check or passed-details; code iff failed or passed-details; compile
\* log iff failed-compile; stderr iff failed-run; arguments and input iff
\* missed-error, failed-output or passed-details; outputs and diff iff
\* failed-run or failed-output.
C6_SectionsAsStated == DetailedBlocks(SectionsAsStated)

\* C6: as stated, except that the code is printed only if the test has a
\* code block, the arguments only if the test has arguments, the per-check
\* results under passed-details only if some check was executed, and the
\* diff only on an HTML sink.  A passed test on a student- or teacher-level
\* sink shows only its status.
C6_SectionsAsPrinted == DetailedBlocks(SectionsAsPrinted)

\* A failed-output test without arguments was printed to a text sink: its
\* block has the input and the two outputs, but no arguments and no diff.
C6_Witness ==
  /\ pc = "load"
  /\ Len(tests) = 1
  /\ ~tests[1].hidden
  /\ ~tests[1].args_set
  /\ GetStatus(tests[1]) = "FAILED_OUTPUT"
  /\ outputs[1].detail = STUDENT
  /\ outputs[1].type = "txt"
  /\ \E k \in Blocks(outputs[1]) :
       SectionNames(outputs[1].written[k]) = { "code", "input", "output" }

\* C7: once a test has been executed, hit_timeout is true exactly when the
\* raw status of the run command has 124 as its low byte or as its high
\* byte; run_exit_code is the raw status; and a test that hit the timeout
\* has status failed-time and earns nothing.
C7_TimeoutDetection ==
  \A i \in 1..Len(tests) :
    LET t == tests[i] IN
      "execute" \in Range(t.log) =>
        /\ t.hit_timeout <=> (t.raw % 256 = 124 \/ t.raw \div 256 = 124)
        /\ t.run_exit_code = t.raw
        /\ t.hit_timeout => GetStatus(t) = "FAILED_TIME" /\ EarnedPoints(t) = 0

\* A test was cut short by the timeout, reported in the high byte, and
\* recorded.
C7_Witness ==
  \E i \in 1..Len(tests) :
    /\ Recorded(tests[i])
    /\ tests[i].raw = 124 * 256
    /\ tests[i].hit_timeout
    /\ tests[i].points > 0

SameLetter(c, d) == c = d \/ { c, d } = { "a", "A" }

\* Two files that differ at most in the case of their letters.
SameUpToCase(f, g) ==
  /\ Len(f) = Len(g)
  /\ \A i \in 1..Len(f) :
       /\ Len(f[i]) = Len(g[i])
       /\ \A j \in 1..Len(f[i]) : SameLetter(f[i][j], g[i][j])

RemoveAt(s, k) == SubSeq(s, 1, k - 1) \o SubSeq(s, k + 1, Len(s))

Blank(l) == \A j \in 1..Len(l) : l[j] = " "

\* g is f without one whitespace character or without one blank line.
OneWhitespaceLess(f, g) ==
  \/ \E i \in 1..Len(f) : \E j \in 1..Len(f[i]) :
       f[i][j] = " " /\ Len(f[i]) > 1 /\ g = [f EXCEPT ![i] = RemoveAt(f[i], j)]
  \/ \E i \in 1..Len(f) : Blank(f[i]) /\ g = RemoveAt(f, i)

\* The text of a file that counts when spaces do not: its letters, line by
\* line, without the lines that have none.
Letters(f) ==
  LET F[i \in 0..Len(f)] ==
        IF i = 0 THEN <<>>
        ELSE LET G[j \in 0..Len(f[i])] ==
                   IF j = 0 THEN <<>>
                   ELSE IF f[i][j] = " " THEN G[j-1] ELSE Append(G[j-1], f[i][j])
             IN IF G[Len(f[i])] = <<>> THEN F[i-1] ELSE Append(F[i-1], G[Len(f[i])])
  IN F[Len(f)]

NonEmptyLines(f) ==
  LET F[i \in 0..Len(f)] ==
        IF i = 0 THEN <<>> ELSE IF f[i] = <<>> THEN F[i-1] ELSE Append(F[i-1], f[i])
  IN F[Len(f)]

Lowered(f) ==
  [i \in 1..Len(f) |-> [j \in 1..Len(f[i]) |-> IF f[i][j] = "A" THEN "a" ELSE f[i][j]]]

\* C8: after the compare phase output_match is true if no expected file is
\* configured; otherwise it is true exactly when output and expected file
\* are equal after lowercasing (if match_case is false) and after removing
\* all whitespace (if match_space is false) or else the empty lines.  So
\* files that differ only in case match when match_case is false, files
\* that differ in a space or a blank line match when match_space is false,
\* and a difference in case is a mismatch when match_case is true.
C8_OutputMatch ==
  pc = "record" =>
    LET t == tests[1]
        e == t.expect_lines
        o == t.out_content
        ce == IF t.match_case THEN e ELSE Lowered(e)
        co == IF t.match_case THEN o ELSE Lowered(o)
    IN IF t.expect_filename = "" THEN t.output_match
       ELSE /\ t.output_match <=>
                 IF t.match_space THEN NonEmptyLines(ce) = NonEmptyLines(co)
                                  ELSE Letters(ce) = Letters(co)
            /\ ~t.match_case /\ SameUpToCase(e, o) => t.output_match
            /\ ~t.match_space /\ (OneWhitespaceLess(e, o) \/ OneWhitespaceLess(o, e))
                 => t.output_match
            /\ t.match_case /\ SameUpToCase(e, o) /\ e # o => ~t.output_match

\* Two files that differ in case and in a blank line were compared with
\* match_case and match_space false, and matched.
C8_Witness ==
  /\ pc = "record"
  /\ tests[1].expect_filename # ""
  /\ ~tests[1].match_case
  /\ ~tests[1].match_space
  /\ tests[1].expect_lines = << <<"A", " ">>, <<" ">> >>
  /\ tests[1].out_content = << <<"a">> >>
  /\ tests[1].output_match

\* The harness has finished with test i: it is not in its pipeline.
Handled(i) == pc \in { "load", "done", "halted" } \/ running # i

\* C9: a test declared with exit_code=1 whose program exits with code 1
\* (and fails no check) has status passed and earns its points; a test
\* declared without exit_code whose program exits with code 1 has status
\* failed-run and earns nothing.
C9_DeclaredExitCode ==
  \A i \in 1..Len(tests) :
    LET t == tests[i] IN
      t.prog.fate = "exit1" /\ Handled(i) =>
        IF t.exit_code_arg = "1"
          THEN GetStatus(t) = "PASSED" /\ EarnedPoints(t) > 0
          ELSE Recorded(t) /\ t.compile_exit_code = 0 =>
                 GetStatus(t) = "FAILED_RUN" /\ EarnedPoints(t) = 0

\* C10: a test one of whose compile commands exited with a nonzero status is
\* never executed and is recorded with status failed-compile.
C10_AnyCompileFailureStopsTest ==
  \A i \in 1..Len(tests) :
    LET t == tests[i] IN
      (\E k \in 1..Len(t.cmd_status) : t.cmd_status[k] # 0) =>
        /\ "execute" \notin Range(t.log)
        /\ Recorded(t) => GetStatus(t) = "FAILED_COMPILE"

\* The blocks of test id that sink o has received.
BlocksOf(o, id) == { k \in Blocks(o) : o.written[k].title.id = id }

\* C11: a test whose body has a CHECK with && or || ends the run in the
\* generate phase: it is never compiled or executed, the program's output
\* file is never written, and no sink receives a block for it.
C11_AndOrIsFatalAtGenerate ==
  \A i \in 1..Len(tests) :
    LET t == tests[i] IN
      t.code = "badcheck" /\ t.log # <<>> =>
        /\ pc = "halted" /\ error = "bad_check" /\ running = i
        /\ t.log = << "generate" >>
        /\ t.compile_exit_code = -1 /\ t.run_exit_code = -1
        /\ t.files \cap { "compile", "out", "error", "result" } = {}
        /\ \A j \in 1..Len(outputs) : BlocksOf(outputs[j], t.id) = {}

\* The run ended in the generate phase of its second test, after the first
\* test had been printed to a sink.
C11_Witness ==
  /\ pc = "halted"
  /\ error = "bad_check"
  /\ Len(tests) = 2
  /\ tests[2].code = "badcheck"
  /\ tests[2].log = << "generate" >>
  /\ \E j \in 1..Len(outputs) : BlocksOf(outputs[j], 0) # {}


Directives == { ":compile", ":header", ":output", ":testcase" }

\* A step that reads a line with directive d.
Reads(d) == nread' = nread + 1 /\ command' = d

C13_NoCompileRecipeIsFatal ==
  [][ Reads(":testcase") =>
        IF error' = "unknown_variable"
          THEN pc' = "halted" /\ tests' = tests /\ running' = running
        ELSE IF compile = <<>>
          THEN /\ pc' = "halted" /\ error' = "no_compile"
               /\ tests' = tests
               /\ running' = running
          ELSE /\ Len(tests') = Len(tests) + 1
               /\ tests'[Len(tests')].id = Len(tests)
               /\ SubSeq(tests', 1, Len(tests)) = tests
    ]_vars

\* A test was run, an empty :compile block replaced the recipe, and the
\* next :testcase ended the run with one test allocated.
C13_Witness ==
  /\ pc = "halted"
  /\ error = "no_compile"
  /\ command = ":testcase"
  /\ compile = <<>>
  /\ Len(tests) = 1
  /\ Recorded(tests[1])


\* C14: nothing that one :TestCase put in the store is seen by a later test.
\* Stated on what the later test shows of it: the name its directive line
\* gave it is not the .cpp file of an earlier test (a "${cpp}" on the line),
\* and a "${args}" in the code block of a test without args is not replaced
\* by the args of an earlier test.
C14_StoreResetPerTest ==
  \A j \in 1..Len(tests) : \A i \in 1..(j-1) :
    /\ tests[j].name # tests[i].cpp_filename
    /\ tests[i].args_set /\ ~tests[j].args_set /\ tests[j].body = Ref("args")
         => tests[j].processed_code = <<>>


\* The step read a directive line and the handler of the directive stored
\* its arguments with LoadVars.
Loaded ==
  /\ nread' = nread + 1
  /\ command' \in { ":init", ":header", ":output", ":testcase" }
  /\ error' \notin { "init_twice", "unknown_variable", "no_compile" }

\* C15: once a line that gives a variable a double-quoted literal has been
\* stored, a reference to the variable is replaced by the text the literal
\* stands for: the quotes are gone and the escapes undone.
C15_QuotedValueRoundTrip ==
  [][ Loaded =>
        \A i \in 1..Len(line') :
          IsQuoted(line'[i].value) =>
            ApplyVars(var_map', Ref(line'[i].var))
              = [ok |-> TRUE, out |-> from_literal_string(line'[i].value)]
    ]_vars

\* C16: the names of the store are lower-case, and a variable stored under
\* any capitalisation is found by a reference that spells it in lower case
\* or as it was written.
C16_NamesAreCaseInsensitive ==
  [][ Loaded =>
        /\ \A k \in DOMAIN var_map' : to_lower_string(k) = k
        /\ \A i \in 1..Len(line') :
             \A name \in { line'[i].var, to_lower_string(line'[i].var) } :
               ApplyVars(var_map', Ref(name)) = [ok |-> TRUE, out |-> line'[i].value]
    ]_vars


\* The six file keys of a :TestCase line: the attribute of the test and the
\* variable of the store each of them stands for.
FileAttribute ==
  [ cpp |-> "cpp_filename", exe |-> "exe_filename", compile |-> "compile_filename",
    output |-> "output_filename", error |-> "error_filename",
    result |-> "result_filename" ]

FileVariable ==
  [ cpp |-> "cpp", exe |-> "exe", compile |-> "compile", output |-> "out",
    error |-> "error", result |-> "result" ]

Unquoted(value) == IF IsQuoted(value) THEN from_literal_string(value) ELSE value

\* C17: a :TestCase line that gives one of cpp, exe, compile, output, error,
\* result is accepted (its test goes on to the generate phase) with the
\* value as the attribute of the test, and when the phases of the test run
\* the variable of the store holds the value too.
C17_FileKeysOverride ==
  [][ /\ Reads(":testcase") /\ compile # <<>> /\ error' # "unknown_variable" =>
           \A i \in 1..Len(line') :
             line'[i].var \in DOMAIN FileAttribute =>
               /\ pc' = "generate"
               /\ Last(tests')[FileAttribute[line'[i].var]] = Unquoted(line'[i].value)
      /\ pc = "generate" /\ pc' = "compile" =>
           \A i \in 1..Len(line) :
             line[i].var \in DOMAIN FileVariable =>
               var_map'[FileVariable[line[i].var]] = Unquoted(line[i].value)
    ]_vars


\* The blocks sink j of outs has received for test id (none if outs has no
\* sink j).
ReceivedBy(outs, j, id) == IF j <= Len(outs) THEN BlocksOf(outs[j], id) ELSE {}

\* The ids of the tests a summary lists.
SummaryIds(item) == { item.rows[r][1] : r \in 1..Len(item.rows) }

\* C18: (a) the record phase of a test that ends its pipeline appends the
\* block of the test, once, to every sink of level student or above that
\* is registered by then; (b) a sink receives a block of a test in no other
\* step, so a sink registered later never receives it; (c) the blocks of a
\* sink are in the order of the test ids; (d) at the end of the recipe the
\* summary written to a sink of level summary or above lists every test.
C18_BlocksReachEarlierSinks ==
  [][ /\ pc = "record" /\ pc' = "load" =>
           \A j \in 1..Len(outputs) :
             HasResults(outputs[j]) =>
               /\ outputs'[j].written # <<>>
               /\ Last(outputs'[j].written).kind = "result"
               /\ Last(outputs'[j].written).title.id = Test.id
               /\ Cardinality(BlocksOf(outputs'[j], Test.id)) = 1
      /\ \A j \in 1..Len(outputs') : \A i \in 1..Len(tests') :
           ReceivedBy(outputs', j, tests'[i].id) # ReceivedBy(outputs, j, tests'[i].id)
             => pc = "record" /\ running = i
      /\ \A j \in 1..Len(outputs') :
           \A k1, k2 \in Blocks(outputs'[j]) :
             k1 < k2 => outputs'[j].written[k1].title.id < outputs'[j].written[k2].title.id
      /\ pc = "load" /\ pc' = "done" =>
           \A j \in 1..Len(outputs) :
             HasSummary(outputs[j]) =>
               /\ outputs'[j].written # <<>>
               /\ Last(outputs'[j].written).kind = "summary"
               /\ { tests[i].id : i \in 1..Len(tests) } \subseteq
                    SummaryIds(Last(outputs'[j].written))
    ]_vars


\* C19: in what a sink has been given, a header is the first item and
\* nothing else (so there is at most one); a sink that has been given
\* anything starts with a header exactly if its level is summary or above,
\* so a percent or score sink has none; a sink of level none has been given
\* nothing.
C19_HeaderOnceAndFirst ==
  \A j \in 1..Len(outputs) :
    LET o == outputs[j]
        w == o.written
    IN /\ \A k \in 1..Len(w) : w[k].kind = "header" => k = 1
       /\ w # <<>> => (w[1].kind = "header" <=> o.detail >= SUMMARY)
       /\ o.detail \in { PERCENT, SCORE } => \A k \in 1..Len(w) : w[k].kind # "header"
       /\ o.detail = NONE => w = <<>>

\* The recipe is at its end; a teacher sink holds its header, a block and the
\* summary, and a score sink holds its score line alone.
C19_Witness ==
  /\ pc = "done"
  /\ Len(outputs) = 2
  /\ outputs[1].detail = TEACHER
  /\ Len(outputs[1].written) = 3
  /\ outputs[1].written[1].kind = "header"
  /\ outputs[1].written[2].kind = "result"
  /\ outputs[1].written[3].kind = "summary"
  /\ outputs[2].detail = SCORE
  /\ Len(outputs[2].written) = 1
  /\ outputs[2].written[1].kind = "score"


\* C20: the stream of a sink that has been opened stays usable: no step,
\* and in particular no :Output that registers a further sink, leaves an
\* opened sink with a stream it cannot write to.
C20_OpenHandleStaysUsable ==
  \A j \in 1..Len(outputs) : outputs[j].open => outputs[j].valid


\* The attributes of a test that name its generated files.
FileFields == { FileAttribute[k] : k \in DOMAIN FileAttribute }

\* The name starts with the directory and has "/Test<id>" after it.
IdPiece == [ id \in 0..MaxLines |-> "/Test" \o ToString(id) ]

DerivedFromId(name, id) == Len(name) >= 2 /\ name[Len(name) - 1] = IdPiece[id]

\* The file names that the :TestCase lines of the recipes give.
GivenNames ==
  { Unquoted(g.value[1].text) :
      g \in { h \in UNION { l.more : l \in TestcaseLines } : h.var \in DOMAIN FileAttribute } }

AllocatedInOrder == \A i \in 1..Len(tests) : tests[i].id = i - 1

\* C21 as stated: the ids are 0, 1, 2, ... in the order of the recipe, and
\* no file name of a test is a file name of another test.
C21_NoFileNameCollision ==
  /\ AllocatedInOrder
  /\ \A i, j \in 1..Len(tests) : i < j =>
       \A a, b \in FileFields : tests[i][a] # tests[j][b]

\* C21 as the harness has it: the ids are 0, 1, 2, ... in the order of the
\* recipe; the names of the .cpp, .exe, compile and errors files of a test
\* are derived from its id, and so are the names of its output and result
\* files unless the test gave them on its directive line (a directive that
\* names one of the other four files ends the run as an unknown argument);
\* names derived from the ids of two tests differ.
C21_DerivedNamesAreDistinct ==
  /\ AllocatedInOrder
  /\ \A i \in 1..Len(tests) : \A a \in FileFields :
       \/ DerivedFromId(tests[i][a], tests[i].id)
       \/ /\ \/ a \in { "output_filename", "result_filename" }
             \/ error = "unknown_argument" /\ i = Len(tests)
          /\ tests[i][a] \in GivenNames
  /\ \A i, j \in 1..Len(tests) : i < j =>
       \A a, b \in FileFields :
         \/ tests[i][a] # tests[j][b]
         \/ ~DerivedFromId(tests[i][a], tests[i].id)
         \/ ~DerivedFromId(tests[j][b], tests[j].id)

\* Two tests were run, the first with names of its own for its output and
\* result files, the second with the names derived from its id.
C21_Witness ==
  /\ Len(tests) = 2
  /\ Recorded(tests[2])
  /\ ~DerivedFromId(tests[1].output_filename, 0)
  /\ DerivedFromId(tests[1].cpp_filename, 0)
  /\ DerivedFromId(tests[2].output_filename, 1)
  /\ DerivedFromId(tests[2].cpp_filename, 1)


\* C22: a non-blank line that follows an :Init or :Output line and does not
\* start with ':' is discarded: no error is raised, nothing of the state of
\* the harness changes, and the run goes on to the next directive.
C22_LinesAfterBlocklessDirectiveDiscarded ==
  [][ (nread' = nread + 1 /\ command' = "text" /\ command \in { ":init", ":output" }) =>
        /\ pc' = "load" /\ error' = "none"
        /\ UNCHANGED <<var_map, is_init, compile, header, outputs, cap, tests, running>>
    ]_vars


\* The program has ended.
Ended == pc \in { "done", "exited", "halted" }

\* C23: the process ends with status 1 (after the usage message) when it was
\* not given exactly one argument; otherwise with status 0 exactly when the
\* run met no error of the harness, which a recipe file that cannot be read
\* is, and with a nonzero status when it met one.
C23_ExitStatusTellsHarnessErrors ==
  Ended =>
    /\ Len(argv) # 1 => ExitStatus = 1 /\ error = "usage"
    /\ Len(argv) = 1 => ( ExitStatus = 0 <=> argv[1] \in Readable /\ error = "none" )


\* The test was compiled, its program ran to its end, and the record phase
\* read the results file without an error.
RanAndRecorded(t) ==
  Recorded(t) /\ t.compile_exit_code = 0 /\ t.prog.fate = "ok" /\ error = "none"

\* The executions of the occurrence a record was made for.
ExecutionsOf(t, c) == { k \in 1..Len(t.prog.events) : t.prog.events[k].occ = c.location }

\* The body has no CHECK_TYPE.
OnlyChecks(t) == \A k \in 1..Len(t.prog.kinds) : t.prog.kinds[k] = "CHECK"

\* C24: after the record phase a check is passed exactly when the run
\* executed it at least once and every execution of it reported success; a
\* test with a check that was never executed, or that failed in one of its
\* executions, has the status failed-check when no earlier row applies.
C24_PassedIffExecutedAndNeverFailed ==
  \A i \in 1..Len(tests) :
    LET t == tests[i]
        good(c) == /\ ExecutionsOf(t, c) # {}
                   /\ \A k \in ExecutionsOf(t, c) : t.prog.events[k].ok
    IN RanAndRecorded(t) /\ OnlyChecks(t) =>
         /\ \A k \in 1..Len(t.checks) : CheckPassed(t.checks[k]) <=> good(t.checks[k])
         /\ (\E k \in 1..Len(t.checks) : ~good(t.checks[k])) /\ ~t.hit_timeout
               => GetStatus(t) = "FAILED_CHECK"


\* The generate phase has rewritten the body of the test.
Rewritten(t) == t.log # <<>> /\ error \notin { "unknown_variable", "bad_check" }

\* The numbers after the :CHECK: tokens of a results file.
CheckTokens(file) == { k \in 1..Len(file) : file[k][1] = ":CHECK:" }

\* C25: whatever mix of CHECK and CHECK_TYPE a body holds, the rewriter makes
\* one record for each occurrence; the ids of the records are pairwise
\* distinct, are 0, 1, 2, ... without a gap and grow with the place of the
\* occurrence in the body; and the id an occurrence writes after :CHECK: is
\* the id of its record.
C25_IdsFollowSourcePosition ==
  \A i \in 1..Len(tests) :
    LET t == tests[i]
        n == Len(t.prog.kinds)
    IN Rewritten(t) =>
         /\ Len(t.checks) = n
         /\ \A occ \in 1..n :
              Cardinality({ k \in 1..Len(t.checks) : t.checks[k].location = occ }) = 1
         /\ \A j, k \in 1..Len(t.checks) : j # k => t.checks[j].id # t.checks[k].id
         /\ { t.checks[k].id : k \in 1..Len(t.checks) } = 0..(n - 1)
         /\ \A j, k \in 1..Len(t.checks) :
              t.checks[j].location < t.checks[k].location => t.checks[j].id < t.checks[k].id
         /\ "execute" \in Range(t.log) /\ t.prog.fate = "ok" =>
              /\ Cardinality(CheckTokens(t.result_file)) = Len(t.prog.events)
              /\ \A e \in 1..Len(t.prog.events) :
                   \E k \in 1..Len(t.checks) :
                     /\ t.checks[k].location = t.prog.events[e].occ
                     /\ \E l \in CheckTokens(t.result_file) :
                          t.result_file[l][2] = t.checks[k].id


\* The test was compiled and its program was run.
CompiledAndRan(t) == t.compile_exit_code = 0 /\ "execute" \in Range(t.log)

\* Every check of the body was executed exactly once.
EachOnce(t) ==
  \A occ \in 1..Len(t.prog.kinds) :
    Cardinality({ k \in 1..Len(t.prog.events) : t.prog.events[k].occ = occ }) = 1

GroupFields == << ":CHECK:", ":TEST:", ":RESULT:", ":LHS:", ":RHS:", ":MSG:" >>

\* Groups of the six field lines, then one SCORE line, and nothing else.
InGroups(file) ==
  /\ file # <<>>
  /\ Last(file)[1] = "SCORE"
  /\ (Len(file) - 1) % Len(GroupFields) = 0
  /\ \A k \in 1..(Len(file) - 1) : file[k][1] = GroupFields[((k - 1) % Len(GroupFields)) + 1]

\* C27: the results file of a generated test whose body ran to its end is
\* made of groups, one for each executed check, of a :CHECK: line followed by
\* one :TEST:, one :RESULT:, one :LHS:, one :RHS: and one :MSG: line in this
\* order, and ends with exactly one SCORE line.
C27_ResultsFileIsGroupsThenScore ==
  \A i \in 1..Len(tests) :
    CompiledAndRan(tests[i]) /\ tests[i].prog.fate = "ok" => InGroups(tests[i].result_file)


\* C28: a value written after :TEST:, :LHS:, :RHS: or :MSG: stays on the
\* line of its field, so every line of a results file starts with a field
\* the record phase knows, and the record phase never ends the run with an
\* unknown field.
C28_EveryLineStartsWithAField ==
  /\ \A i \in 1..Len(tests) :
       CompiledAndRan(tests[i]) =>
         \A k \in 1..Len(tests[i].result_file) : tests[i].result_file[k][1] \in ResultFields
  /\ error # "unknown_field"


\* One of the patterns begins at this position of the expression.
BeginsAt(e, pos, patterns) ==
  \E pat \in patterns :
    pos + Len(pat) - 1 <= Len(e) /\ SubSeq(e, pos, pos + Len(pat) - 1) = pat

\* C29: the expression of a CHECK that holds no "&&" and no "||" is split at
\* the first place where a comparison operator begins, into what is before
\* it, the operator (the one of two characters if one begins there) and what
\* is after it; if another comparison operator begins anywhere after the
\* first one, right after it included, the run ends with an error; an
\* expression without a comparison operator is the left side as a whole,
\* with no comparator.
C29_SplitAtFirstComparison ==
  \A i \in 1..Len(tests) :
    LET t == tests[i]
        e == t.prog.exprs[1]
        places == { pos \in 1..Len(e) : BeginsAt(e, pos, Comparisons) }
        first == CHOOSE pos \in places : \A q \in places : pos <= q
        size == IF BeginsAt(e, first, { c \in Comparisons : Len(c) = 2 }) THEN 2 ELSE 1
    IN /\ t.log # <<>> /\ t.prog.kinds = << "CHECK" >>
       /\ error # "unknown_variable" /\ ~HasAndOr(t.code)
       /\ \A pos \in 1..Len(e) : ~BeginsAt(e, pos, AndOr)
       => IF places = {}
            THEN /\ error = "none" /\ Len(t.checks) = 1
                 /\ t.checks[1].test.lhs = e
                 /\ t.checks[1].test.comparator = <<>>
          ELSE IF \E q \in places : q >= first + size
            THEN pc = "halted" /\ error = "two_comparisons"
          ELSE /\ error = "none" /\ Len(t.checks) = 1
               /\ t.checks[1].test.lhs = SubSeq(e, 1, first - 1)
               /\ t.checks[1].test.comparator = SubSeq(e, first, first + size - 1)
               /\ t.checks[1].test.rhs = SubSeq(e, first + size, Len(e))


\* The record phase of the test is about to read its results file, or has
\* read it.
AtRecord(i) == Recorded(tests[i]) \/ (pc = "record" /\ running = i)

\* C30: every number k the record phase reads after :CHECK: is smaller than
\* the number of check records of the test, and the record at index k, on
\* which the values that follow are stored, has the id k and is the record
\* of the occurrence that wrote k; this for every body, a mix of CHECK and
\* CHECK_TYPE included, and for a results file an earlier run has left.
C30_FieldsGoToTheirCheck ==
  \A i \in 1..Len(tests) :
    LET t == tests[i] IN
    AtRecord(i) =>
      /\ \A l \in CheckTokens(t.result_file) :
           LET k == t.result_file[l][2] IN
             k < Len(t.checks) /\ t.checks[k + 1].id = k
      /\ CompiledAndRan(t) /\ t.prog.fate = "ok" =>
           \A e \in 1..Len(t.prog.events) :
             t.checks[EmittedId(t, t.prog.events[e]) + 1].location = t.prog.events[e].occ

====
